---------------------------- MODULE Spec2Model ----------------------------
(***************************************************************************)
(* A model of newd / netcfgd: the kernel-message decoder of kroute.c, the  *)
(* route/address installer of netcfgd_v4.c and the supervisor of newd.c.   *)
(*                                                                         *)
(* Byte buffers are sequences of naturals 0..255; a byte offset o of the   *)
(* C code is element o+1 of the sequence.  Multi-byte integers are little  *)
(* endian, as on the platforms the daemon runs on.                         *)
(***************************************************************************)
EXTENDS Integers, Sequences, FiniteSets, TLC

VARIABLES
    pc,         \* position of main(): "start", "spawn", "ipc", "config", "loop"
                \* (event_dispatch), "wait" (main_shutdown), "exit0", "exit1"
    loopexit,   \* event_loopexit() was called
    cur,        \* the callback the event loop is running, or "none"
    budget,     \* callbacks the event loop may still start
    main_conf,  \* the retained configuration (struct newd_conf *main_conf)
    xconf,      \* the configuration main_reload has parsed
    r_pc,       \* position inside main_reload: "none", "send", "merge"
    r_ret,      \* what the last main_reload returned: "none", 0, -1
    s_ret,      \* what the last main_imsg_send_config returned
    d_pc,       \* position inside main_dispatch_frontend / main_dispatch_engine
    d_shut,     \* the handler's local shut
    d_rq,       \* how many frames imsg_read has buffered and imsg_get not returned
    d_got,      \* the frames imsg_get has returned in this callback, in order
    verbose,    \* the verbosity log_verbose() last set
    iev,        \* iev_frontend / iev_engine: the two struct imsgev
    enomem,     \* allocation failures imsg_compose may still meet
    rcv,        \* each child's configuration: [active, pending]
    children,   \* the children forked and not yet returned by wait()
    kr_pc,      \* position inside kr_dispatch_msg
    kr_buf,     \* buf[] after read(): [data |-> bytes read, fill |-> stack garbage]
    kr_offset,  \* offset of the decode loop
    kr_src,     \* what the kernel encoded into kr_buf: [msgs, cut], and pos, the
                \* number of loop iterations made over it
    kr_fwd,     \* calls of main_imsg_compose_engine made by this pass, in order
    kr_rti,     \* rti_info[] of the last get_rtaddrs call, with the base sa and
                \* the iteration (pos) that made the call
    kr_rdmax,   \* end of the highest byte of buf[] read in this pass
    kr_n,       \* what the last read() of the routing socket returned
    kr_tick,    \* parity of the number of iterations the loop has made in
                \* this pass
    rt_seqno,   \* the static seqno of netcfgd_delete_v4route
    rt_route,   \* the last writev on kr_state.route_fd: request, iov, result
    rt_inet,    \* the last ioctl on kr_state.inet_fd: request, argument, result
    rt_calls,   \* installer requests handled so far
    rt_seqs,    \* rtm_seq of every RTM_DELETE message built so far, in order
    rt_log,     \* every kernel call made so far, in order: the function, its
                \* request, the bytes or argument handed over, the result
    mc          \* merge_config / config_clear on their own: the two
                \* configurations, what was freed, the operation done

-----------------------------------------------------------------------------
(* Bounds of the model.                                                    *)

\* messages the kernel may put into one read() buffer
MaxMsgs == 2
\* allocation failures of imsg_compose explored in one behaviour
MaxComposeFail == 1

-----------------------------------------------------------------------------
(* Platform and system-header constants used by kroute.c.                  *)

\* sizeof(long), the word ROUNDUP pads to
SIZEOF_LONG == 8
\* sizeof(u_short), the size of rtm_msglen
SIZEOF_USHORT == 2
\* sizeof(struct rt_msghdr)
SIZEOF_RTM == 96
\* offsets of the fields of struct rt_msghdr
OFF_MSGLEN == 0
OFF_VERSION == 2
OFF_TYPE == 3
OFF_HDRLEN == 4
OFF_INDEX == 6
OFF_TABLEID == 8
OFF_PRIORITY == 10
OFF_ADDRS == 12
OFF_FLAGS == 16
OFF_SEQ == 28
OFF_INITS == 36
OFF_RMX_MTU == 60

RTM_VERSION == 5
RTM_ADD == 1
RTM_DELETE == 2
RTM_PROPOSAL == 19
RTV_MTU == 1
RTP_NONE == 0
AF_INET == 2
AF_INET6 == 24

RTAX_DST == 0
RTAX_GATEWAY == 1
RTAX_NETMASK == 2
RTAX_IFP == 4
RTAX_IFA == 5
RTAX_DNS1 == 12
RTAX_DNS2 == 13
RTAX_DNS3 == 14
RTAX_DNS4 == 15
RTAX_STATIC == 16
RTAX_SEARCH == 17
RTAX_MAX == 18

\* struct sockaddr: sa_len, sa_family
OFF_SA_LEN == 0
OFF_SA_FAMILY == 1
\* struct sockaddr_in: sin_addr; struct sockaddr_in6: sin6_addr
OFF_SIN_ADDR == 4
OFF_SIN6_ADDR == 8
SIZEOF_SIN == 16
SIZEOF_SIN6 == 28
\* struct sockaddr_rtstatic / sockaddr_rtsearch: sr_static, sr_search
OFF_SR_DATA == 2
RTSTATIC_LEN == 128
RTSEARCH_LEN == 128

\* struct imsg_v4proposal (netcfgd.h): the size of one address field, of the
\* static-route blob and of the search-domain blob
PROPOSAL_ADDR_LEN == 4
PROPOSAL_RTSTATIC_LEN == 128
PROPOSAL_RTSEARCH_LEN == 128

NULL == -1

-----------------------------------------------------------------------------
(* Bytes.                                                                  *)

Zeros(n) == [i \in 1..n |-> 0]

LE16(v) == << v % 256, (v \div 256) % 256 >>

LE32(v) == << v % 256, (v \div 256) % 256, (v \div 65536) % 256,
              (v \div 16777216) % 256 >>

\* the C expression (x & (1 << i)) != 0
BitSet(x, i) == (x \div (2 ^ i)) % 2 = 1

\* the bitmap with exactly the bits of S set
BitsOf(S) ==
    LET RECURSIVE Sum(_)
        Sum(T) == IF T = {} THEN 0
                  ELSE LET i == CHOOSE j \in T : TRUE IN 2 ^ i + Sum(T \ {i})
    IN Sum(S)

\* reading buf[]: past the bytes read() returned the array holds whatever the
\* stack held
RdU8(b, o) == IF o < Len(b.data) THEN b.data[o + 1] ELSE b.fill

RdU16(b, o) == RdU8(b, o) + 256 * RdU8(b, o + 1)

RdU32(b, o) == RdU8(b, o) + 256 * RdU8(b, o + 1) + 65536 * RdU8(b, o + 2)
               + 16777216 * RdU8(b, o + 3)

\* memcpy(dst, buf + o, n)
RdBytes(b, o, n) == [i \in 1..n |-> RdU8(b, o + i - 1)]

Max(a, b) == IF a >= b THEN a ELSE b

-----------------------------------------------------------------------------
(* What the kernel writes to the routing socket.  A message descriptor is  *)
(* [version, type, index, priority, flags, seq, inits, mtu, slots], slots  *)
(* a function from the RTAX_ indices present to address records            *)
(* [kind, family, addr].                                                   *)

\* one address record as the kernel lays it out
SaEncode(s) ==
    CASE s.kind = "in" ->
           << SIZEOF_SIN, s.family, 0, 0 >> \o s.addr \o Zeros(8)
      [] s.kind = "in6" ->
           << SIZEOF_SIN6, s.family, 0, 0 >> \o << 9, 9, 9, 9 >> \o s.addr
             \o Zeros(4)
      [] s.kind = "rt" ->
           << OFF_SR_DATA + Len(s.addr), s.family >> \o s.addr

\* the kernel pads every record to a multiple of sizeof(long)
KPadded(bytes) ==
    bytes \o Zeros((SIZEOF_LONG - (Len(bytes) % SIZEOF_LONG)) % SIZEOF_LONG)

RECURSIVE KSlots(_, _)
KSlots(slots, i) ==
    IF i = RTAX_MAX THEN << >>
    ELSE (IF i \in DOMAIN slots THEN KPadded(SaEncode(slots[i])) ELSE << >>)
         \o KSlots(slots, i + 1)

KEncode(m) ==
    LET body == KSlots(m.slots, 0)
    IN LE16(SIZEOF_RTM + Len(body)) \o << m.version, m.type >>
       \o LE16(SIZEOF_RTM) \o LE16(m.index) \o LE16(0)
       \o << m.priority, 0 >> \o LE32(BitsOf(DOMAIN m.slots)) \o LE32(m.flags)
       \o LE32(0) \o LE32(0) \o LE32(m.seq) \o LE32(0) \o LE32(m.inits)
       \o Zeros(20) \o LE32(m.mtu) \o Zeros(32)
       \o body

RECURSIVE KEncodeAll(_)
KEncodeAll(ms) ==
    IF ms = << >> THEN << >> ELSE KEncode(Head(ms)) \o KEncodeAll(Tail(ms))

In4(a, b, c, d) == [kind |-> "in", family |-> AF_INET, addr |-> << a, b, c, d >>]

In6(a, b) ==
    [kind |-> "in6", family |-> AF_INET6,
     addr |-> << 32, 1, 13, 184 >> \o Zeros(10) \o << a, b >>]

Blob(n, k) == [i \in 1..n |-> (i * k) % 256]

RtStatic(k) == [kind |-> "rt", family |-> 0, addr |-> Blob(RTSTATIC_LEN, k)]

RtSearch(fam, k) ==
    [kind |-> "rt", family |-> fam, addr |-> Blob(RTSEARCH_LEN, k)]

KMsg(ver, type, inits, mtu, seq, slots) ==
    [version |-> ver, type |-> type, index |-> 3, priority |-> 60,
     flags |-> 2051, seq |-> seq, inits |-> inits, mtu |-> mtu,
     slots |-> slots]

\* the messages the kernel is taken to send
KMsgs ==
    { KMsg(RTM_VERSION, RTM_PROPOSAL, 0, 1500, 7,
           (RTAX_GATEWAY :> In4(1, 2, 3, 4)) @@ (RTAX_IFA :> In4(5, 6, 7, 8))),
      KMsg(RTM_VERSION, RTM_PROPOSAL, RTV_MTU, 1400, 8,
           (RTAX_NETMASK :> In4(255, 255, 255, 0))
           @@ (RTAX_DNS1 :> In4(9, 9, 9, 9)) @@ (RTAX_DNS3 :> In4(8, 8, 4, 4))
           @@ (RTAX_STATIC :> RtStatic(7))
           @@ (RTAX_SEARCH :> RtSearch(AF_INET6, 11))),
      KMsg(RTM_VERSION, RTM_PROPOSAL, RTV_MTU, 1280, 9,
           (RTAX_GATEWAY :> In6(0, 1)) @@ (RTAX_IFA :> In6(0, 2))
           @@ (RTAX_DNS2 :> In6(0, 3)) @@ (RTAX_DNS4 :> In6(0, 4))
           @@ (RTAX_SEARCH :> RtSearch(0, 13))),
      KMsg(RTM_VERSION, RTM_PROPOSAL, RTV_MTU, 1280, 9,
           (RTAX_GATEWAY :> In6(0, 5)) @@ (RTAX_IFA :> In6(0, 2))
           @@ (RTAX_DNS2 :> In6(0, 3)) @@ (RTAX_DNS4 :> In6(0, 4))
           @@ (RTAX_SEARCH :> RtSearch(0, 13))),
      KMsg(RTM_VERSION, RTM_PROPOSAL, 0, 9000, 10, << >>),
      KMsg(RTM_VERSION, RTM_PROPOSAL, 0, 1500, 13,
           (RTAX_STATIC :> RtStatic(3))
           @@ (RTAX_SEARCH :> RtSearch(AF_INET, 5))),
      KMsg(RTM_VERSION - 1, RTM_PROPOSAL, RTV_MTU, 1500, 11,
           (RTAX_GATEWAY :> In4(10, 0, 0, 1))),
      KMsg(RTM_VERSION, RTM_ADD, RTV_MTU, 1500, 12,
           (RTAX_DST :> In4(10, 1, 0, 0)) @@ (RTAX_GATEWAY :> In4(10, 0, 0, 1))
           @@ (RTAX_NETMASK :> In4(255, 255, 0, 0))) }

RECURSIVE SeqsUpTo(_, _)
SeqsUpTo(S, n) ==
    IF n = 0 THEN { << >> }
    ELSE LET T == SeqsUpTo(S, n - 1)
         IN T \cup { Append(t, x) : t \in { u \in T : Len(u) = n - 1 }, x \in S }

\* a read() returns whole messages, unless producer and consumer have lost
\* step: then the last message lacks its last byte ("drop1"), or all but its
\* first byte ("keep1")
KCuts == { "none", "drop1", "keep1" }

\* a writer that does not keep to the framing: the last message of the
\* buffer declares a length of 8, less than its header, and ends there
\* ("shortlen"); declares a length of 0 ("zerolen"); or has every bit of
\* rtm_addrs set while carrying the records of its slots only ("allbits")
KDamages == { "shortlen", "zerolen", "allbits" }

\* bytes with those at offset off replaced by new
KPatch(bytes, off, new) ==
    [i \in 1..Len(bytes) |->
        IF i - 1 >= off /\ i - 1 < off + Len(new) THEN new[i - off]
        ELSE bytes[i]]

KMalformed(m, dmg) ==
    CASE dmg = "shortlen" -> SubSeq(KPatch(KEncode(m), OFF_MSGLEN, LE16(8)), 1, 8)
      [] dmg = "zerolen" -> KPatch(KEncode(m), OFF_MSGLEN, LE16(0))
      [] dmg = "allbits" -> KPatch(KEncode(m), OFF_ADDRS, LE32(2 ^ RTAX_MAX - 1))

\* the bytes written to the routing socket for the messages ms
KWritten(ms, cut) ==
    IF cut \in KDamages
    THEN KEncodeAll(SubSeq(ms, 1, Len(ms) - 1)) \o KMalformed(ms[Len(ms)], cut)
    ELSE KEncodeAll(ms)

\* the bytes missing at the end of the buffer
KCutLen(ms, cut) ==
    CASE cut = "none" -> 0
      [] cut = "drop1" -> 1
      [] cut = "keep1" -> Len(KEncode(ms[Len(ms)])) - 1
      [] cut \in KDamages -> 0

\* bytes left over in buf[] from the stack
KFill == { 0, 127 }

-----------------------------------------------------------------------------
(* kroute.c: the decoder.                                                  *)

\* a cursor that is not padded, to show what depends on ROUNDUP
ROUNDUP_unpadded(a) == a

\* ROUNDUP(a): ((a) & (sizeof(long) - 1)) ? (1 + ((a) | (sizeof(long) - 1))) : (a)
ROUNDUP(a) ==
    IF a % SIZEOF_LONG # 0
    THEN 1 + ((a - (a % SIZEOF_LONG)) + (SIZEOF_LONG - 1))
    ELSE a

\* a classification in which the last present slot decides, to show what
\* depends on v6 being only ever cleared
rtaddrs_v6_last(b, sa, v6) ==
    IF RdU8(b, sa + OFF_SA_FAMILY) = AF_INET THEN 0 ELSE 1

\* if (sa->sa_family == AF_INET) v6 = 0;
rtaddrs_v6(b, sa, v6) ==
    IF RdU8(b, sa + OFF_SA_FAMILY) = AF_INET THEN 0 ELSE v6

\* the body of the for loop of get_rtaddrs, from index i on; acc is
\* [rti |-> rti_info[], v6 |-> v6, rdmax |-> end of the highest byte read]
RECURSIVE get_rtaddrs_loop(_, _, _, _, _)
get_rtaddrs_loop(b, addrs, i, sa, acc) ==
    IF i = RTAX_MAX THEN acc
    ELSE IF BitSet(addrs, i)
         THEN get_rtaddrs_loop(b, addrs, i + 1,
                  sa + ROUNDUP(RdU8(b, sa + OFF_SA_LEN)),
                  [rti |-> [acc.rti EXCEPT ![i] = sa],
                   v6 |-> rtaddrs_v6(b, sa, acc.v6),
                   rdmax |-> Max(acc.rdmax, sa + OFF_SA_FAMILY + 1)])
         ELSE get_rtaddrs_loop(b, addrs, i + 1, sa,
                  [acc EXCEPT !.rti[i] = NULL])

\* get_rtaddrs(addrs, sa, rti_info): rti is rti_info[] as the caller left it
get_rtaddrs(b, addrs, sa, rti) ==
    get_rtaddrs_loop(b, addrs, 0, sa, [rti |-> rti, v6 |-> 1, rdmax |-> 0])

\* an mtu copied whatever rtm_inits says, to show what depends on the test
proposal_mtu_unguarded(b, rtm) == RdU32(b, rtm + OFF_RMX_MTU)

\* if (proposal.inits & RTV_MTU) proposal.mtu = rtm->rtm_rmx.rmx_mtu;
proposal_mtu(b, rtm) ==
    IF (RdU32(b, rtm + OFF_INITS) \div RTV_MTU) % 2 = 1
    THEN RdU32(b, rtm + OFF_RMX_MTU)
    ELSE 0

\* if (rti_info[slot] != NULL) memcpy(&proposal.field, sa + off, sizeof(field));
\* the field was zeroed by the memset
proposal_field(b, rti, slot, off, size) ==
    IF rti[slot] # NULL THEN RdBytes(b, rti[slot] + off, size) ELSE Zeros(size)

\* if (rtsearch->sr_family == AF_INET6) proposal.rtsearch_encoded = 1;
proposal_rtsearch_encoded(b, rti) ==
    IF rti[RTAX_SEARCH] # NULL
       /\ RdU8(b, rti[RTAX_SEARCH] + OFF_SA_FAMILY) = AF_INET6
    THEN 1 ELSE 0

\* the struct imsg_v4proposal both forward functions fill; addr is the offset
\* of the address inside the sockaddr the function casts the slot to
proposal_fill(b, rtm, rti, addr) ==
    [addrs |-> RdU32(b, rtm + OFF_ADDRS),
     inits |-> RdU32(b, rtm + OFF_INITS),
     flags |-> RdU32(b, rtm + OFF_FLAGS),
     xid |-> RdU32(b, rtm + OFF_SEQ),
     index |-> RdU16(b, rtm + OFF_INDEX),
     source |-> RdU8(b, rtm + OFF_PRIORITY),
     mtu |-> proposal_mtu(b, rtm),
     rtstatic |-> proposal_field(b, rti, RTAX_STATIC, OFF_SR_DATA,
                                 PROPOSAL_RTSTATIC_LEN),
     rtsearch_encoded |-> proposal_rtsearch_encoded(b, rti),
     rtsearch |-> proposal_field(b, rti, RTAX_SEARCH, OFF_SR_DATA,
                                 PROPOSAL_RTSEARCH_LEN),
     gateway |-> proposal_field(b, rti, RTAX_GATEWAY, addr, PROPOSAL_ADDR_LEN),
     ifa |-> proposal_field(b, rti, RTAX_IFA, addr, PROPOSAL_ADDR_LEN),
     netmask |-> proposal_field(b, rti, RTAX_NETMASK, addr, PROPOSAL_ADDR_LEN),
     dns1 |-> proposal_field(b, rti, RTAX_DNS1, addr, PROPOSAL_ADDR_LEN),
     dns2 |-> proposal_field(b, rti, RTAX_DNS2, addr, PROPOSAL_ADDR_LEN),
     dns3 |-> proposal_field(b, rti, RTAX_DNS3, addr, PROPOSAL_ADDR_LEN),
     dns4 |-> proposal_field(b, rti, RTAX_DNS4, addr, PROPOSAL_ADDR_LEN)]

\* an IPv4 proposal sent under the IPv6 kind, to show what depends on the kind
forward_v4proposal_v6kind(b, rtm, rti) ==
    [type |-> "IMSG_SEND_V6PROPOSAL", fd |-> -1,
     data |-> proposal_fill(b, rtm, rti, OFF_SIN_ADDR)]

\* forward_v4proposal: the message handed to main_imsg_compose_engine
forward_v4proposal(b, rtm, rti) ==
    [type |-> "IMSG_SEND_V4PROPOSAL", fd |-> -1,
     data |-> proposal_fill(b, rtm, rti, OFF_SIN_ADDR)]

\* forward_v6proposal: the message handed to main_imsg_compose_engine
forward_v6proposal(b, rtm, rti) ==
    [type |-> "IMSG_SEND_V6PROPOSAL", fd |-> -1,
     data |-> proposal_fill(b, rtm, rti, OFF_SIN6_ADDR)]

\* end of the highest byte a forward function reads
forward_rdmax(rtm, rti, inits, addr) ==
    LET hdr == IF (inits \div RTV_MTU) % 2 = 1
               THEN rtm + OFF_RMX_MTU + 4 ELSE rtm + OFF_INITS + 4
        End(slot, off, size) ==
            IF rti[slot] # NULL THEN rti[slot] + off + size ELSE 0
        ends == { End(RTAX_STATIC, OFF_SR_DATA, PROPOSAL_RTSTATIC_LEN),
                  End(RTAX_SEARCH, OFF_SR_DATA, PROPOSAL_RTSEARCH_LEN) }
                \cup { End(sl, addr, PROPOSAL_ADDR_LEN) :
                         sl \in { RTAX_GATEWAY, RTAX_IFA, RTAX_NETMASK,
                                  RTAX_DNS1, RTAX_DNS2, RTAX_DNS3, RTAX_DNS4 } }
    IN CHOOSE x \in ends \cup { hdr } : \A y \in ends \cup { hdr } : y <= x

-----------------------------------------------------------------------------
(* newd.c: the imsg channels to the two children.                          *)

Channels == { "frontend", "engine" }

sup_vars == << pc, loopexit, cur, budget, main_conf, xconf, r_pc, r_ret, s_ret,
               d_pc, d_shut, d_rq, d_got, verbose, iev, enomem, rcv,
               children >>

kr_vars == << kr_pc, kr_buf, kr_offset, kr_src, kr_fwd, kr_rti, kr_rdmax, kr_n,
             kr_tick >>

rt_vars == << rt_seqno, rt_route, rt_inet, rt_calls, rt_seqs, rt_log >>

cfg_vars == << mc >>

vars == << sup_vars, kr_vars, rt_vars, cfg_vars >>

\* imsg_event_add(iev)
imsg_event_add(e) ==
    [e EXCEPT !.events = IF Len(e.w) > 0 THEN { "EV_READ", "EV_WRITE" }
                         ELSE { "EV_READ" },
              !.added = TRUE]

\* imsg_compose(&iev->ibuf, ...): ok is whether it could allocate the buffer
imsg_compose(e, m, ok) == IF ok THEN [e EXCEPT !.w = Append(@, m)] ELSE e

\* imsg_compose_event(iev, ...)
imsg_compose_event(e, m, ok) ==
    IF ok THEN imsg_event_add(imsg_compose(e, m, ok)) ELSE e

\* main_imsg_compose_engine(type, pid, data, datalen); iev_engine is not NULL
\* from main()'s malloc on
main_imsg_compose_engine(v, m, ok) ==
    [v EXCEPT !["engine"] = imsg_compose_event(@, m, ok)]

\* main_imsg_compose_frontend(type, pid, data, datalen)
main_imsg_compose_frontend(v, m, ok) ==
    [v EXCEPT !["frontend"] = imsg_compose_event(@, m, ok)]

\* the outcomes of one allocation in imsg_compose
ComposeOutcomes == IF enomem > 0 THEN { TRUE, FALSE } ELSE { TRUE }

-----------------------------------------------------------------------------
(* kroute.c: kr_dispatch_msg, the callback of the routing socket.          *)

\* the event loop may start a callback
CanStart == pc = "loop" /\ cur = "none" /\ budget > 0

\* rti_info[] before get_rtaddrs has run: whatever the stack held
KrStale == [i \in 0..(RTAX_MAX - 1) |-> 0]

\* kr_dispatch_msg is not running: its locals hold nothing
KrIdle ==
    /\ kr_pc = "idle"
    /\ kr_buf = [data |-> << >>, fill |-> 0]
    /\ kr_offset = 0
    /\ kr_src = [msgs |-> << >>, cut |-> "none", pos |-> 0]
    /\ kr_fwd = << >>
    /\ kr_rti = [rti |-> KrStale, sa |-> 0, pos |-> 0]
    /\ kr_rdmax = 0
    /\ kr_n = [n |-> -1, errno |-> "EAGAIN"]
    /\ kr_tick = 0

\* the installer has handled no request
RtIdle ==
    /\ rt_seqno = 0
    /\ rt_route = [op |-> "none"]
    /\ rt_inet = [op |-> "none"]
    /\ rt_calls = 0
    /\ rt_seqs = << >>
    /\ rt_log = << >>

\* read() == -1 with EAGAIN or EINTR: return
kr_read_again ==
    /\ CanStart
    /\ budget' = budget - 1
    /\ \E e \in { "EAGAIN", "EINTR" } : kr_n' = [n |-> -1, errno |-> e]
    /\ kr_pc' = "idle"
    /\ UNCHANGED << pc, loopexit, cur, main_conf, xconf, r_pc, r_ret, s_ret,
                    d_pc, d_shut, d_rq, d_got, verbose, iev, enomem, rcv,
                    kr_buf, kr_offset, kr_src, kr_fwd, kr_rti, kr_rdmax,
                    kr_tick >>
    /\ UNCHANGED << children, rt_vars, cfg_vars >>

\* read() == -1 with another errno, or read() == 0: event_loopexit, return
kr_read_stop(n) ==
    /\ CanStart
    /\ budget' = budget - 1
    /\ kr_n' = [n |-> n, errno |-> IF n = -1 THEN "EIO" ELSE ""]
    /\ kr_pc' = "idle"
    /\ loopexit' = TRUE
    /\ kr_fwd' = << >>
    /\ UNCHANGED << pc, cur, main_conf, xconf, r_pc, r_ret, s_ret,
                    d_pc, d_shut, d_rq, d_got, verbose, iev, enomem, rcv,
                    kr_buf, kr_offset, kr_src, kr_rti, kr_rdmax, kr_tick >>
    /\ UNCHANGED << children, rt_vars, cfg_vars >>

\* read() returns n > 0 bytes: the messages ms of the kernel, the last cut
\* bytes missing; the decode loop starts
kr_read_data(ms, cut, fill) ==
    /\ CanStart
    /\ ms # << >>
    /\ budget' = budget - 1
    /\ cur' = "kr"
    /\ kr_pc' = "loop"
    /\ LET all == KWritten(ms, cut)
           n == Len(all) - KCutLen(ms, cut)
       IN /\ kr_buf' = [data |-> SubSeq(all, 1, n), fill |-> fill]
          /\ kr_n' = [n |-> n, errno |-> ""]
    /\ kr_src' = [msgs |-> ms, cut |-> cut, pos |-> 0]
    /\ kr_offset' = 0
    /\ kr_fwd' = << >>
    /\ kr_rdmax' = 0
    /\ kr_tick' = 0
    /\ kr_rti' = [rti |-> KrStale, sa |-> 0, pos |-> 0]
    /\ UNCHANGED << pc, loopexit, main_conf, xconf, r_pc, r_ret, s_ret,
                    d_pc, d_shut, d_rq, d_got, verbose, iev, enomem, rcv >>
    /\ UNCHANGED << children, rt_vars, cfg_vars >>

\* a loop without the framing test, to show what depends on it
partial_rtm_unchecked(b, len, offset) == FALSE

\* if (len < offset + sizeof(u_short) || len < offset + rtm->rtm_msglen)
partial_rtm(b, len, offset) ==
    \/ len < offset + SIZEOF_USHORT
    \/ len < offset + RdU16(b, offset + OFF_MSGLEN)

\* end of the highest byte of buf[] that the iteration at offset rtm reads
\* (0 when it reads none): rtm_msglen by the framing test, rtm_version,
\* rtm_hdrlen, rtm_addrs and rtm_type, the records by get_rtaddrs, and what
\* the forward function copies
kr_iter_reads(b, len, rtm, rti) ==
    IF len < rtm + SIZEOF_USHORT /\ partial_rtm(b, len, rtm) THEN 0
    ELSE IF partial_rtm(b, len, rtm) THEN rtm + OFF_MSGLEN + SIZEOF_USHORT
    ELSE IF RdU8(b, rtm + OFF_VERSION) # RTM_VERSION
    THEN rtm + OFF_VERSION + 1
    ELSE LET sa == rtm + RdU16(b, rtm + OFF_HDRLEN)
             r == get_rtaddrs(b, RdU32(b, rtm + OFF_ADDRS), sa, rti)
             hdrmax == Max(rtm + OFF_ADDRS + 4, r.rdmax)
         IN IF RdU8(b, rtm + OFF_TYPE) = RTM_PROPOSAL
            THEN Max(hdrmax,
                     forward_rdmax(rtm, r.rti, RdU32(b, rtm + OFF_INITS),
                                   IF r.v6 # 0 THEN OFF_SIN6_ADDR
                                   ELSE OFF_SIN_ADDR))
            ELSE hdrmax

\* the message of the writer the next iteration is at: the next one, or the
\* last one again when the offset has not moved past it
kr_pos_next ==
    IF kr_src.pos < Len(kr_src.msgs) THEN kr_src.pos + 1 ELSE kr_src.pos

\* one iteration of the for loop of kr_dispatch_msg, with its
\* offset += rtm->rtm_msglen
kr_dispatch_iter ==
    /\ cur = "kr" /\ kr_pc = "loop"
    /\ kr_offset < Len(kr_buf.data)
    /\ LET b == kr_buf
           len == Len(kr_buf.data)
           rtm == kr_offset
           msglen == RdU16(b, rtm + OFF_MSGLEN)
       IN IF partial_rtm(b, len, kr_offset)
          THEN \* fatalx("rtmsg_process: partial rtm in buffer")
               /\ pc' = "exit1"
               /\ kr_pc' = "fatal"
               /\ cur' = "none"
               /\ UNCHANGED << kr_offset, kr_fwd, kr_rti, kr_src, iev, enomem >>
          ELSE IF RdU8(b, rtm + OFF_VERSION) # RTM_VERSION
          THEN \* continue
               /\ kr_offset' = kr_offset + msglen
               /\ kr_src' = [kr_src EXCEPT !.pos = kr_pos_next]
               /\ UNCHANGED << pc, cur, kr_pc, kr_fwd, kr_rti, iev, enomem >>
          ELSE LET sa == rtm + RdU16(b, rtm + OFF_HDRLEN)
                   addrs == RdU32(b, rtm + OFF_ADDRS)
                   r == get_rtaddrs(b, addrs, sa, kr_rti.rti)
               IN /\ kr_rti' = [rti |-> r.rti, sa |-> sa, pos |-> kr_pos_next]
                  /\ kr_offset' = kr_offset + msglen
                  /\ kr_src' = [kr_src EXCEPT !.pos = kr_pos_next]
                  /\ UNCHANGED << pc, cur, kr_pc >>
                  /\ IF RdU8(b, rtm + OFF_TYPE) = RTM_PROPOSAL
                     THEN LET m == IF r.v6 # 0
                                   THEN forward_v6proposal(b, rtm, r.rti)
                                   ELSE forward_v4proposal(b, rtm, r.rti)
                          IN /\ kr_fwd' = Append(kr_fwd, m)
                             /\ \E ok \in ComposeOutcomes :
                                  /\ iev' = main_imsg_compose_engine(iev, m, ok)
                                  /\ enomem' = IF ok THEN enomem ELSE enomem - 1
                     ELSE \* default: ignore for now
                          /\ UNCHANGED << kr_fwd, iev, enomem >>
    /\ kr_rdmax' = Max(kr_rdmax, kr_iter_reads(kr_buf, Len(kr_buf.data),
                                               kr_offset, kr_rti.rti))
    /\ kr_tick' = 1 - kr_tick
    /\ UNCHANGED << loopexit, budget, main_conf, xconf, r_pc, r_ret, s_ret,
                    d_pc, d_shut, d_rq, d_got, verbose, rcv, kr_buf, kr_n >>
    /\ UNCHANGED << children, rt_vars, cfg_vars >>

\* the loop takes an iteration, whatever the iteration does
kr_iterate ==
    /\ cur = "kr" /\ kr_pc = "loop"
    /\ kr_offset < Len(kr_buf.data)
    /\ kr_tick' = 1 - kr_tick

\* offset < len fails: the loop ends and kr_dispatch_msg returns
kr_dispatch_return ==
    /\ cur = "kr" /\ kr_pc = "loop"
    /\ ~ (kr_offset < Len(kr_buf.data))
    /\ cur' = "none"
    /\ kr_pc' = "idle"
    /\ kr_buf' = [data |-> << >>, fill |-> 0]
    /\ kr_offset' = 0
    /\ kr_src' = [msgs |-> << >>, cut |-> "none", pos |-> 0]
    /\ kr_fwd' = << >>
    /\ kr_rti' = [rti |-> KrStale, sa |-> 0, pos |-> 0]
    /\ kr_rdmax' = 0
    /\ kr_tick' = 0
    /\ kr_n' = [n |-> -1, errno |-> "EAGAIN"]
    /\ UNCHANGED << pc, loopexit, budget, main_conf, xconf, r_pc, r_ret, s_ret,
                    d_pc, d_shut, d_rq, d_got, verbose, iev, enomem, rcv >>
    /\ UNCHANGED << children, rt_vars, cfg_vars >>

-----------------------------------------------------------------------------
(* newd.c: configurations and their distribution.                          *)

\* the scalar members of struct newd_conf
ScalarFields ==
    { "csock", "opts", "yesno", "global_yesno", "integer", "global_integer",
      "v4_bits", "global_v4_bits", "v6_bits", "global_v6_bits",
      "v4address", "global_v4address", "v6address", "global_v6address",
      "text", "global_text" }

\* a struct group of the parser
Group(k) == [name |-> k % 2, yesno |-> k, integer |-> 10 * k]

\* a struct newd_conf of the parser: every scalar set from k, n groups
Conf(k, n) ==
    [csock |-> 1, opts |-> k % 2, yesno |-> k, global_yesno |-> k + 1,
     integer |-> 10 * k, global_integer |-> 10 * k + 1,
     v4_bits |-> 8 * k, global_v4_bits |-> 8 * k + 1,
     v6_bits |-> 16 * k, global_v6_bits |-> 16 * k + 1,
     v4address |-> k, global_v4address |-> k + 1,
     v6address |-> k + 2, global_v6address |-> k + 3,
     text |-> k, global_text |-> k + 1,
     groups |-> [i \in 1..n |-> Group(3 * k + i)]]

\* config_new_empty(): calloc and LIST_INIT
config_new_empty ==
    [f \in ScalarFields |-> 0] @@ [groups |-> << >>]

\* the fixed part of a configuration, sent as sizeof(*xconf) bytes
Scalars(c) == [f \in ScalarFields |-> c[f]]

ConfMsg(c) == [type |-> "IMSG_RECONF_CONF", fd |-> -1, data |-> Scalars(c)]

GroupMsg(g) == [type |-> "IMSG_RECONF_GROUP", fd |-> -1, data |-> g]

EndMsg == [type |-> "IMSG_RECONF_END", fd |-> -1, data |-> [len |-> 0]]

\* a main_sendboth that leaves the engine out, to show what depends on its
\* second imsg_compose_event
main_sendboth_frontend_only(v, m, f) ==
    IF f = 1 THEN [iev |-> v, ret |-> -1]
    ELSE [iev |-> [v EXCEPT !["frontend"] = imsg_compose_event(@, m, TRUE)],
          ret |-> 0]

\* main_sendboth(type, buf, len); f says which imsg_compose fails:
\* 0 none, 1 the frontend's, 2 the engine's
main_sendboth(v, m, f) ==
    IF f = 1 THEN [iev |-> v, ret |-> -1]
    ELSE LET v1 == [v EXCEPT !["frontend"] = imsg_compose_event(@, m, TRUE)]
         IN IF f = 2 THEN [iev |-> v1, ret |-> -1]
            ELSE [iev |-> [v1 EXCEPT !["engine"] =
                                 imsg_compose_event(@, m, TRUE)],
                  ret |-> 0]

\* of the imsg_compose calls of one main_imsg_send_config, numbered from 1,
\* call number fail fails (0: none); ncall main_sendboth calls were made
FailOf(fail, ncall) ==
    IF fail = 2 * ncall + 1 THEN 1 ELSE IF fail = 2 * ncall + 2 THEN 2 ELSE 0

\* a group loop that goes on after a main_sendboth that failed, to show what
\* depends on its return (-1)
RECURSIVE send_groups_unchecked(_, _, _, _)
send_groups_unchecked(v, gs, i, fail) ==
    IF i > Len(gs) THEN [iev |-> v, ret |-> 0]
    ELSE send_groups_unchecked(
             main_sendboth(v, GroupMsg(gs[i]), FailOf(fail, i)).iev,
             gs, i + 1, fail)

\* LIST_FOREACH(g, &xconf->group_list, entry) main_sendboth(IMSG_RECONF_GROUP ...
RECURSIVE send_groups(_, _, _, _)
send_groups(v, gs, i, fail) ==
    IF i > Len(gs) THEN [iev |-> v, ret |-> 0]
    ELSE LET r == main_sendboth(v, GroupMsg(gs[i]), FailOf(fail, i))
         IN IF r.ret = -1 THEN r ELSE send_groups(r.iev, gs, i + 1, fail)

\* a distribution without its IMSG_RECONF_END, to show what depends on the
\* last main_sendboth
main_imsg_send_config_noend(v, c, fail) ==
    LET r1 == main_sendboth(v, ConfMsg(c), FailOf(fail, 0))
    IN IF r1.ret = -1 THEN r1 ELSE send_groups(r1.iev, c.groups, 1, fail)

\* main_imsg_send_config(xconf)
main_imsg_send_config(v, c, fail) ==
    LET r1 == main_sendboth(v, ConfMsg(c), FailOf(fail, 0))
    IN IF r1.ret = -1 THEN r1
       ELSE LET r2 == send_groups(r1.iev, c.groups, 1, fail)
            IN IF r2.ret = -1 THEN r2
               ELSE main_sendboth(r2.iev, EndMsg,
                                  FailOf(fail, Len(c.groups) + 1))

\* the imsg_compose calls that may fail in a main_imsg_send_config of c
SendFails(c) ==
    IF enomem > 0 THEN 0..(2 * (Len(c.groups) + 2)) ELSE { 0 }

\* groups adopted at the tail of the list, to show what depends on
\* LIST_INSERT_HEAD
insert_tails(gs, list) == list \o gs

\* LIST_INSERT_HEAD of every group of gs, first to last, onto list
RECURSIVE insert_heads(_, _)
insert_heads(gs, list) ==
    IF gs = << >> THEN list ELSE insert_heads(Tail(gs), << Head(gs) >> \o list)

\* a merge_config without its first loop, to show what depends on the old
\* groups being removed
merge_config_keepold(conf, xc) ==
    [conf EXCEPT !.opts = xc.opts,
                 !.yesno = xc.yesno,
                 !.integer = xc.integer,
                 !.global_text = xc.global_text,
                 !.groups = insert_heads(xc.groups, conf.groups)]

\* merge_config(conf, xconf): what conf holds afterwards
merge_config(conf, xc) ==
    [conf EXCEPT !.opts = xc.opts,
                 !.yesno = xc.yesno,
                 !.integer = xc.integer,
                 !.global_text = xc.global_text,
                 !.groups = insert_heads(xc.groups, << >>)]

\* merge_config's first loop, while ((g = LIST_FIRST(&conf->group_list)) !=
\* NULL) { LIST_REMOVE(g, entry); free(g); }: the list it leaves and the
\* objects passed to free(), in order, behind those in freed
RECURSIVE free_groups(_, _)
free_groups(list, freed) ==
    IF list = << >> THEN [list |-> list, freed |-> freed]
    ELSE free_groups(Tail(list), Append(freed, Head(list)))

\* merge_config's second loop as it leaves xconf's list: LIST_REMOVE of the
\* first entry until LIST_FIRST is NULL
RECURSIVE remove_heads(_)
remove_heads(list) ==
    IF list = << >> THEN list ELSE remove_heads(Tail(list))

\* a struct group allocated at address a
GroupAt(a) == Group(a) @@ [addr |-> a]

\* the lists of at most n distinct elements of S
Lists(S, n) ==
    { t \in SeqsUpTo(S, n) :
        \A i, j \in 1..Len(t) : i # j => t[i] # t[j] }

\* merge_config and config_clear have not been run on their own
McIdle ==
    mc = [op |-> "none", conf |-> config_new_empty, xconf |-> config_new_empty,
          freed |-> << >>, structs |-> << >>]

\* merge_config(conf, xconf) with its effects on the heap: conf, xconf's
\* list, the groups freed and free(xconf)
cfg_merge ==
    /\ mc.op = "none"
    /\ mc' = [op |-> "merge",
              conf |-> merge_config(mc.conf, mc.xconf),
              xconf |-> [mc.xconf EXCEPT !.groups = remove_heads(@)],
              freed |-> free_groups(mc.conf.groups, mc.freed).freed,
              structs |-> Append(mc.structs, "xconf")]
    /\ UNCHANGED << sup_vars, kr_vars, rt_vars >>

\* config_clear(conf): merge_config with config_new_empty(), free(conf)
config_clear ==
    /\ mc.op \in { "none", "merge" }
    /\ mc' = [op |-> "clear",
              conf |-> merge_config(mc.conf, config_new_empty),
              xconf |-> mc.xconf,
              freed |-> free_groups(mc.conf.groups, mc.freed).freed,
              structs |-> mc.structs \o << "empty", "conf" >>]
    /\ UNCHANGED << sup_vars, kr_vars, rt_vars >>

\* main_shutdown after its config_clear(main_conf) and its wait() loop:
\* free(iev_frontend); free(iev_engine); free(main_conf); exit(0)
main_shutdown_free ==
    /\ mc.op = "clear"
    /\ mc' = [mc EXCEPT !.op = "exit",
                        !.structs = @ \o << "iev_frontend", "iev_engine",
                                            "conf" >>]
    /\ UNCHANGED << sup_vars, kr_vars, rt_vars >>

-----------------------------------------------------------------------------
(* The children's side of configuration distribution (frontend.c,          *)
(* engine.c): a child keeps the configuration in force (active) and builds *)
(* the one being received (pending: << >> or one configuration).           *)

rcv_apply(r, m) ==
    CASE m.type = "IMSG_RECONF_CONF" ->
           [r EXCEPT !.pending = << m.data @@ [groups |-> << >>] >>]
      [] m.type = "IMSG_RECONF_GROUP" ->
           IF r.pending = << >> THEN r
           ELSE [r EXCEPT !.pending[1].groups = Append(@, m.data)]
      [] m.type = "IMSG_RECONF_END" ->
           IF r.pending = << >> THEN r
           ELSE [active |-> r.pending[1], pending |-> << >>]
      [] OTHER -> r

RECURSIVE rcv_deliver(_, _)
rcv_deliver(r, ms) ==
    IF ms = << >> THEN r ELSE rcv_deliver(rcv_apply(r, Head(ms)), Tail(ms))

-----------------------------------------------------------------------------
(* newd.c: main().                                                         *)

\* frames one read may buffer
MaxFrames == 2
\* groups of a parsed configuration
MaxGroups == 2
\* callbacks the event loop starts in one behaviour
MaxEvents == 1

\* what parse_config() may return besides NULL
ParsedConfs == { Conf(2, MaxGroups) }

NoIev == [w |-> << >>, events |-> {}, added |-> FALSE, fd |-> FALSE]

\* imsg_init, iev->events = EV_READ, event_set, event_add
NewIev == [w |-> << >>, events |-> { "EV_READ" }, added |-> TRUE, fd |-> TRUE]

Init ==
    /\ pc = "start"
    /\ loopexit = FALSE
    /\ cur = "none"
    /\ budget = MaxEvents
    /\ main_conf = config_new_empty
    /\ xconf = config_new_empty
    /\ r_pc = "none"
    /\ r_ret = 1
    /\ s_ret = 1
    /\ d_pc = "none"
    /\ d_shut = FALSE
    /\ d_rq = 0
    /\ d_got = << >>
    /\ children = {}
    /\ verbose = 1
    /\ iev = [ch \in Channels |-> NoIev]
    /\ enomem = MaxComposeFail
    /\ rcv = [ch \in Channels |->
                [active |-> config_new_empty, pending |-> << >>]]
    /\ KrIdle
    /\ RtIdle
    /\ McIdle

\* main(): parse_config(conffile, opts); NULL ends the process with exit(1)
main_parse(c, ok) ==
    /\ pc = "start"
    /\ IF ok THEN main_conf' = c /\ pc' = "spawn"
       ELSE pc' = "exit1" /\ UNCHANGED main_conf
    /\ UNCHANGED << loopexit, cur, budget, xconf, r_pc, r_ret, s_ret, d_pc,
                    d_shut, d_rq, d_got, verbose, iev, enomem, rcv, kr_vars >>
    /\ UNCHANGED << children, rt_vars, cfg_vars >>

\* the children start_child has forked when forked calls of it have returned:
\* the engine first, then the frontend
Forked(forked) ==
    IF forked = 0 THEN {}
    ELSE IF forked = 1 THEN { "engine" } ELSE { "engine", "frontend" }

\* main(): socketpair twice, start_child twice, event_init, the signal
\* handlers, malloc and imsg_init of both imsgev, event_add; any failure is
\* fatal: of a socketpair or the first fork (forked = 0), of the second fork
\* (forked = 1), of malloc (forked = 2)
main_spawn(forked, ok) ==
    /\ pc = "spawn"
    /\ ok => forked = 2
    /\ children' = Forked(forked)
    /\ IF ok THEN pc' = "ipc" /\ iev' = [ch \in Channels |-> NewIev]
       ELSE pc' = "exit1" /\ UNCHANGED iev
    /\ UNCHANGED << loopexit, cur, budget, main_conf, xconf, r_pc, r_ret, s_ret,
                    d_pc, d_shut, d_rq, d_got, verbose, enomem, rcv,
                    kr_vars >>
    /\ UNCHANGED << rt_vars, cfg_vars >>

SocketIpc(end) == [type |-> "IMSG_SOCKET_IPC", fd |-> end, data |-> [len |-> 0]]

\* a handoff that passes pipe_frontend2engine[0] to both children, to show
\* what depends on the engine getting the other end
main_imsg_send_ipc_sockets_same_end(v, sp, f) ==
    IF ~ sp \/ f = 1 THEN [iev |-> v, ret |-> -1]
    ELSE LET v1 == [v EXCEPT !["frontend"] = imsg_compose(@, SocketIpc(0), TRUE)]
         IN IF f = 2 THEN [iev |-> v1, ret |-> -1]
            ELSE [iev |-> [v1 EXCEPT !["engine"] =
                                 imsg_compose(@, SocketIpc(0), TRUE)],
                  ret |-> 0]

\* main_imsg_send_ipc_sockets(frontend_buf, engine_buf); sp is whether
\* socketpair succeeds, f which imsg_compose fails (0: none)
main_imsg_send_ipc_sockets(v, sp, f) ==
    IF ~ sp \/ f = 1 THEN [iev |-> v, ret |-> -1]
    ELSE LET v1 == [v EXCEPT !["frontend"] = imsg_compose(@, SocketIpc(0), TRUE)]
         IN IF f = 2 THEN [iev |-> v1, ret |-> -1]
            ELSE [iev |-> [v1 EXCEPT !["engine"] =
                                 imsg_compose(@, SocketIpc(1), TRUE)],
                  ret |-> 0]

\* main(): if (main_imsg_send_ipc_sockets(...)) fatal(...)
main_ipc(sp, f) ==
    /\ pc = "ipc"
    /\ f \in (IF enomem > 0 THEN 0..2 ELSE { 0 })
    /\ LET r == main_imsg_send_ipc_sockets(iev, sp, f)
       IN /\ iev' = r.iev
          /\ pc' = IF r.ret = 0 THEN "config" ELSE "exit1"
    /\ enomem' = IF sp /\ f # 0 THEN enomem - 1 ELSE enomem
    /\ UNCHANGED << loopexit, cur, budget, main_conf, xconf, r_pc, r_ret, s_ret,
                    d_pc, d_shut, d_rq, d_got, verbose, rcv, kr_vars >>
    /\ UNCHANGED << children, rt_vars, cfg_vars >>

\* main(): main_imsg_send_config(main_conf), its result unused; pledge;
\* event_dispatch()
main_config(fail, pledged) ==
    /\ pc = "config"
    /\ fail \in SendFails(main_conf)
    /\ LET r == main_imsg_send_config(iev, main_conf, fail)
       IN /\ iev' = r.iev
          /\ s_ret' = r.ret
    /\ enomem' = IF fail # 0 THEN enomem - 1 ELSE enomem
    /\ pc' = IF pledged THEN "loop" ELSE "exit1"
    /\ UNCHANGED << loopexit, cur, budget, main_conf, xconf, r_pc, r_ret,
                    d_pc, d_shut, d_rq, d_got, verbose, rcv, kr_vars >>
    /\ UNCHANGED << children, rt_vars, cfg_vars >>

-----------------------------------------------------------------------------
(* newd.c: main_dispatch_frontend and main_dispatch_engine.                *)

\* sizeof(verbose), an int
SIZEOF_INT == 4

\* a frame of type type with len bytes of payload whose leading bytes, read
\* as an integer, are v
Frame(type, len, v) == [type |-> type, len |-> len, data |-> v]

\* the frames a child may send with the payload size of their type;
\* "MALFORMED" is a header imsg_get rejects
SizedFrames(ch) ==
    IF ch = "frontend"
    THEN { Frame("IMSG_CTL_RELOAD", 0, 0),
           Frame("IMSG_CTL_LOG_VERBOSE", SIZEOF_INT, 2),
           Frame("IMSG_CTL_SHOW_MAIN_INFO", 0, 0), Frame("IMSG_NONE", 0, 0),
           Frame("MALFORMED", 0, 0) }
    ELSE { Frame("IMSG_NONE", 0, 0), Frame("IMSG_CTL_RELOAD", 0, 0),
           Frame("MALFORMED", 0, 0) }

\* the frames a child may send: those, and IMSG_CTL_LOG_VERBOSE with no
\* payload, with half an int and with two
Frames(ch) ==
    SizedFrames(ch)
    \cup (IF ch = "frontend"
          THEN { Frame("IMSG_CTL_LOG_VERBOSE", n, 2) :
                   n \in { 0, SIZEOF_INT \div 2, 2 * SIZEOF_INT } }
          ELSE {})

\* the bytes memcpy may find behind a payload that is shorter than what it
\* copies, read as an integer
Garbage == { 0, 1 }

\* memcpy(&verbose, imsg.data, sizeof(verbose)): the int it leaves in verbose
\* when the payload has m.len > 0 bytes
memcpy_verbose(m) ==
    IF m.len >= SIZEOF_INT THEN { m.data }
    ELSE { m.data + (256 ^ m.len) * g : g \in Garbage }

\* what imsg_read() may do: -1/EAGAIN, -1/other, 0, or buffer frames
ReadOutcomes(ch) ==
    { [r |-> x, frames |-> 0] : x \in { "again", "error", "eof" } }
    \cup { [r |-> "data", frames |-> n] : n \in 1..MaxFrames }

\* the reads that buffer at most one frame
OneFrameReads(ch) == { rd \in ReadOutcomes(ch) : rd.frames <= 1 }

\* what msgbuf_write() may do: -1/EAGAIN, -1/other, 0, or write the first k
\* queued messages (one, or all of them)
WriteOutcomes(ch) ==
    { [r |-> x, k |-> 0] : x \in { "again", "error", "closed" } }
    \cup { [r |-> "ok", k |-> k] : k \in { 1, Len(iev[ch].w) } \ { 0 } }

\* whether msgbuf_write() can have done wr: it writes nothing when nothing is
\* queued
CanWrite(ch, wr) == wr.r = "ok" => wr.k <= Len(iev[ch].w)

Skip == { [r |-> "skip", frames |-> 0, k |-> 0] }

\* fatal(): the process exits with status 1, main_shutdown is not run
Fatal ==
    /\ pc' = "exit1"
    /\ cur' = "none"

\* the process is ended by a signal (SIGSEGV)
Killed ==
    /\ pc' = "killed"
    /\ cur' = "none"

\* the callback starts: imsg_read if EV_READ, msgbuf_write if EV_WRITE
dispatch_begin(ch, ev, rd, wr) ==
    /\ CanStart
    /\ iev[ch].added
    /\ ev # {} /\ ev \subseteq iev[ch].events
    /\ CanWrite(ch, wr)
    /\ budget' = budget - 1
    /\ IF rd.r = "error" \/ wr.r = "error"
       THEN \* fatal("imsg_read error") / fatal("msgbuf_write")
            /\ Fatal
            /\ UNCHANGED << d_pc, d_shut, d_rq, iev, rcv >>
            /\ d_got' = << >>
       ELSE /\ cur' = ch
            /\ pc' = pc
            /\ d_pc' = "get"
            /\ d_shut' = (rd.r = "eof" \/ wr.r = "closed")
            /\ d_rq' = rd.frames
            /\ d_got' = << >>
            /\ iev' = [iev EXCEPT ![ch].w = SubSeq(@, wr.k + 1, Len(@))]
            /\ rcv' = [rcv EXCEPT ![ch] =
                          rcv_deliver(@, SubSeq(iev[ch].w, 1, wr.k))]
    /\ UNCHANGED << loopexit, main_conf, xconf, r_pc, r_ret, s_ret, verbose,
                    enomem, kr_vars >>
    /\ UNCHANGED << children, rt_vars, cfg_vars >>

CtlMainInfo(k) ==
    [type |-> "IMSG_CTL_SHOW_MAIN_INFO", fd |-> -1, data |-> [text |-> k]]

CtlEnd == [type |-> "IMSG_CTL_END", fd |-> -1, data |-> [len |-> 0]]

\* main_imsg_compose_frontend for each message of ms from the i-th on; the
\* calls numbered in F fail
RECURSIVE compose_frontend_all(_, _, _, _)
compose_frontend_all(v, ms, i, F) ==
    IF i > Len(ms) THEN v
    ELSE compose_frontend_all(main_imsg_compose_frontend(v, ms[i], i \notin F),
                              ms, i + 1, F)

\* main_showinfo_ctl(imsg)
main_showinfo_ctl(v, F) ==
    compose_frontend_all(v, << CtlMainInfo(1), CtlMainInfo(2), CtlEnd >>, 1, F)

\* a switch that has the frontend's cases on both channels, to show what
\* depends on main_dispatch_engine having none
imsg_case_shared(ch, m) ==
    IF m.type \in { "IMSG_CTL_RELOAD", "IMSG_CTL_LOG_VERBOSE",
                    "IMSG_CTL_SHOW_MAIN_INFO" }
    THEN m.type ELSE "default"

\* switch (imsg.hdr.type) of main_dispatch_frontend and of
\* main_dispatch_engine: the case a frame is handled by
imsg_case(ch, m) ==
    IF ch = "frontend"
       /\ m.type \in { "IMSG_CTL_RELOAD", "IMSG_CTL_LOG_VERBOSE",
                       "IMSG_CTL_SHOW_MAIN_INFO" }
    THEN m.type ELSE "default"

\* one turn of the for (;;) loop with a frame m: imsg_get, the switch,
\* imsg_free
dispatch_get(m) ==
    /\ cur \in Channels /\ d_pc = "get" /\ r_pc = "none"
    /\ d_rq > 0
    /\ m \in Frames(cur)
    /\ d_rq' = d_rq - 1
    /\ d_got' = IF m.type = "MALFORMED" THEN << >> ELSE Append(d_got, m)
    /\ LET shut == d_shut
       IN IF m.type = "MALFORMED"
          THEN \* fatal("imsg_get")
               /\ Fatal
               /\ UNCHANGED << r_pc, verbose, iev, enomem >>
          ELSE IF imsg_case(cur, m) = "IMSG_CTL_LOG_VERBOSE" /\ m.len = 0
          THEN \* imsg.data is NULL: memcpy reads address 0
               /\ Killed
               /\ UNCHANGED << r_pc, verbose, iev, enomem >>
          ELSE /\ UNCHANGED << pc, cur >>
               /\ IF imsg_case(cur, m) = "IMSG_CTL_RELOAD"
                  THEN /\ r_pc' = "parse"
                       /\ UNCHANGED << verbose, iev, enomem >>
                  ELSE IF imsg_case(cur, m) = "IMSG_CTL_LOG_VERBOSE"
                  THEN /\ verbose' \in memcpy_verbose(m)
                       /\ UNCHANGED << r_pc, iev, enomem >>
                  ELSE IF imsg_case(cur, m) = "IMSG_CTL_SHOW_MAIN_INFO"
                  THEN /\ \E F \in SUBSET (1..3) :
                            /\ Cardinality(F) <= enomem
                            /\ iev' = main_showinfo_ctl(iev, F)
                            /\ enomem' = enomem - Cardinality(F)
                       /\ UNCHANGED << r_pc, verbose >>
                  ELSE \* default: log_debug
                       UNCHANGED << r_pc, verbose, iev, enomem >>
    /\ UNCHANGED << loopexit, budget, main_conf, xconf, r_ret, s_ret, d_pc,
                    d_shut, rcv, kr_vars >>
    /\ UNCHANGED << children, rt_vars, cfg_vars >>

\* imsg_get returns 0: the loop ends; imsg_event_add, or event_del and
\* event_loopexit when shut
dispatch_end ==
    /\ cur \in Channels /\ d_pc = "get" /\ r_pc = "none"
    /\ d_rq = 0
    /\ d_pc' = "none"
    /\ cur' = "none"
    /\ IF ~ d_shut
       THEN /\ iev' = [iev EXCEPT ![cur] = imsg_event_add(@)]
            /\ UNCHANGED loopexit
       ELSE /\ iev' = [iev EXCEPT ![cur].added = FALSE]
            /\ loopexit' = TRUE
    /\ d_shut' = FALSE
    /\ d_got' = << >>
    /\ UNCHANGED << pc, budget, main_conf, xconf, r_pc, r_ret, s_ret,
                    d_rq, verbose, enomem, rcv, kr_vars >>
    /\ UNCHANGED << children, rt_vars, cfg_vars >>

-----------------------------------------------------------------------------
(* newd.c: main_reload, main_sig_handler, main_shutdown.                   *)

\* main_reload returns ret to its caller; the signal handler then returns
reload_return(ret) ==
    /\ r_ret' = ret
    /\ r_pc' = "none"
    /\ xconf' = config_new_empty
    /\ cur' = IF cur = "sig" THEN "none" ELSE cur

\* xconf = parse_config(conffile, main_conf->opts); NULL: return (-1)
reload_parse(c, ok) ==
    /\ r_pc = "parse"
    /\ IF ok THEN /\ xconf' = c
                  /\ r_pc' = "send"
                  /\ UNCHANGED << r_ret, cur >>
       ELSE reload_return(-1)
    /\ UNCHANGED << pc, loopexit, budget, main_conf, s_ret, d_pc, d_shut, d_rq, d_got,
                    verbose, iev, enomem, rcv, kr_vars >>
    /\ UNCHANGED << children, rt_vars, cfg_vars >>

\* if (main_imsg_send_config(xconf) == -1) return (-1)
reload_send(fail) ==
    /\ r_pc = "send"
    /\ fail \in SendFails(xconf)
    /\ LET r == main_imsg_send_config(iev, xconf, fail)
       IN /\ iev' = r.iev
          /\ s_ret' = r.ret
          /\ IF r.ret = -1 THEN reload_return(-1)
             ELSE r_pc' = "merge" /\ UNCHANGED << r_ret, cur, xconf >>
    /\ enomem' = IF fail # 0 THEN enomem - 1 ELSE enomem
    /\ UNCHANGED << pc, loopexit, budget, main_conf, d_pc, d_shut, d_rq, d_got,
                    verbose, rcv, kr_vars >>
    /\ UNCHANGED << children, rt_vars, cfg_vars >>

\* merge_config(main_conf, xconf); return (0)
reload_merge ==
    /\ r_pc = "merge"
    /\ main_conf' = merge_config(main_conf, xconf)
    /\ reload_return(0)
    /\ UNCHANGED << pc, loopexit, budget, s_ret, d_pc, d_shut, d_rq, d_got,
                    verbose, iev, enomem, rcv, kr_vars >>
    /\ UNCHANGED << children, rt_vars, cfg_vars >>

\* main_sig_handler(SIGHUP): main_reload()
sig_hup ==
    /\ CanStart
    /\ budget' = budget - 1
    /\ cur' = "sig"
    /\ r_pc' = "parse"
    /\ UNCHANGED << pc, loopexit, main_conf, xconf, r_ret, s_ret, d_pc, d_shut,
                    d_rq, d_got, verbose, iev, enomem, rcv, kr_vars >>
    /\ UNCHANGED << children, rt_vars, cfg_vars >>

\* main_shutdown() up to its wait loop: msgbuf_clear and close of both
\* channels, control_cleanup, config_clear(main_conf)
shutdown_close ==
    /\ pc' = "wait"
    /\ iev' = [ch \in Channels |-> [iev[ch] EXCEPT !.w = << >>, !.fd = FALSE]]
    /\ main_conf' = merge_config(main_conf, config_new_empty)
    /\ UNCHANGED << loopexit, cur, xconf, r_pc, r_ret, s_ret, d_pc, d_shut,
                    d_rq, d_got, verbose, enomem, rcv, kr_vars >>
    /\ UNCHANGED << children, rt_vars, cfg_vars >>

\* main_sig_handler(SIGTERM / SIGINT): main_shutdown()
sig_term ==
    /\ CanStart
    /\ budget' = budget - 1
    /\ shutdown_close

\* event_dispatch() returns after event_loopexit; main(): main_shutdown()
event_dispatch_return ==
    /\ pc = "loop" /\ cur = "none" /\ loopexit
    /\ UNCHANGED budget
    /\ shutdown_close

\* main_shutdown(): wait() returns the pid of a child that has terminated
shutdown_wait(ch) ==
    /\ pc = "wait"
    /\ ch \in children
    /\ children' = children \ { ch }
    /\ UNCHANGED << pc, loopexit, cur, budget, main_conf, xconf, r_pc, r_ret,
                    s_ret, d_pc, d_shut, d_rq, d_got, verbose, iev, enomem, rcv,
                    kr_vars >>
    /\ UNCHANGED << rt_vars, cfg_vars >>

\* main_shutdown(): wait() returns -1 with ECHILD, no child is left; the
\* three free(), exit(0)
shutdown_exit ==
    /\ pc = "wait"
    /\ children = {}
    /\ pc' = "exit0"
    /\ UNCHANGED << loopexit, cur, budget, main_conf, xconf, r_pc, r_ret, s_ret,
                    d_pc, d_shut, d_rq, d_got, verbose, iev, enomem, rcv,
                    kr_vars >>
    /\ UNCHANGED << children, rt_vars, cfg_vars >>

-----------------------------------------------------------------------------
(* netcfgd_v4.c: the installer of addresses and routes.  The request       *)
(* structures are those of netcfgd.h: every address member is taken to be  *)
(* a struct sockaddr_in.                                                    *)

\* installer requests handled in one behaviour
MaxRequests == 3

RTA_DST == 2 ^ RTAX_DST
RTA_GATEWAY == 2 ^ RTAX_GATEWAY
RTA_NETMASK == 2 ^ RTAX_NETMASK
RTA_IFA == 2 ^ RTAX_IFA

\* the bytes of a struct rt_msghdr that memset has zeroed and whose members
\* hold the values of h
RtmBytes(h) ==
    LET At(o, off, size, val) ==
            IF o >= off /\ o < off + size
            THEN (val \div (256 ^ (o - off))) % 256 ELSE 0
    IN [i \in 1..SIZEOF_RTM |->
          At(i - 1, OFF_MSGLEN, 2, h.msglen) + At(i - 1, OFF_VERSION, 1, h.version)
          + At(i - 1, OFF_TYPE, 1, h.type) + At(i - 1, OFF_INDEX, 2, h.index)
          + At(i - 1, OFF_TABLEID, 2, h.tableid)
          + At(i - 1, OFF_PRIORITY, 1, h.priority)
          + At(i - 1, OFF_ADDRS, 4, h.addrs) + At(i - 1, OFF_FLAGS, 4, h.flags)
          + At(i - 1, OFF_SEQ, 4, h.seq)]

\* a struct rt_msghdr after memset(&rtm, 0, sizeof(rtm))
RtmZero ==
    [msglen |-> 0, version |-> 0, type |-> 0, index |-> 0, tableid |-> 0,
     priority |-> 0, addrs |-> 0, flags |-> 0, seq |-> 0]

\* iov[] as writev sends it: the members in order, the header as it is when
\* writev runs
RECURSIVE IovBytes(_)
IovBytes(iov) == IF iov = << >> THEN << >> ELSE Head(iov) \o IovBytes(Tail(iov))

\* rtm.rtm_msglen += n, in a u_short
msglen_add(rtm, n) == [rtm EXCEPT !.msglen = (@ + n) % 65536]

\* an add-route that attaches destination, gateway and netmask whatever the
\* bitmap says, to show what depends on the tests of av4.addrs
add_v4route_iov_all(av4) ==
    LET rtm == [RtmZero EXCEPT !.version = RTM_VERSION, !.type = RTM_ADD,
                               !.priority = RTP_NONE,
                               !.msglen = SIZEOF_RTM + 3 * SIZEOF_SIN,
                               !.tableid = av4.rdomain, !.addrs = av4.addrs,
                               !.flags = av4.flags]
    IN << RtmBytes(rtm), av4.dest, av4.gateway, av4.netmask >>

\* netcfgd_add_v4route up to its writev: iov[0..iovcnt-1]
add_v4route_iov(av4) ==
    LET rtm0 == [RtmZero EXCEPT !.version = RTM_VERSION, !.type = RTM_ADD,
                                !.priority = RTP_NONE, !.msglen = SIZEOF_RTM,
                                !.tableid = av4.rdomain, !.addrs = av4.addrs,
                                !.flags = av4.flags]
        Attach(acc, bit, member) ==
            IF (acc.rtm.addrs \div bit) % 2 # 0
            THEN [rtm |-> msglen_add(acc.rtm, Len(member)),
                  tail |-> Append(acc.tail, member)]
            ELSE acc
        a1 == Attach([rtm |-> rtm0, tail |-> << >>], RTA_DST, av4.dest)
        a2 == Attach(a1, RTA_GATEWAY, av4.gateway)
        a3 == Attach(a2, RTA_NETMASK, av4.netmask)
        a4 == Attach(a3, RTA_IFA, av4.ifa)
    IN << RtmBytes(a4.rtm) >> \o a4.tail

\* netcfgd_delete_v4route up to its writev
\* a remove-route that leaves rtm_seq at 0, as the add-route does, to show
\* what depends on rtm.rtm_seq = seqno++
delete_v4route_iov_noseq(dv4, seqno) ==
    LET rtm0 == [RtmZero EXCEPT !.version = RTM_VERSION, !.type = RTM_DELETE,
                                !.addrs = RTA_DST + RTA_GATEWAY + RTA_NETMASK,
                                !.index = dv4.index,
                                !.tableid = dv4.rdomain]
        rtm == msglen_add(msglen_add(msglen_add(rtm0, Len(dv4.dest)),
                                     Len(dv4.gateway)), Len(dv4.netmask))
    IN << RtmBytes(rtm), dv4.dest, dv4.gateway, dv4.netmask >>

delete_v4route_iov(dv4, seqno) ==
    LET rtm0 == [RtmZero EXCEPT !.version = RTM_VERSION, !.type = RTM_DELETE,
                                !.addrs = RTA_DST + RTA_GATEWAY + RTA_NETMASK,
                                !.seq = seqno, !.index = dv4.index,
                                !.tableid = dv4.rdomain]
        rtm == msglen_add(msglen_add(msglen_add(rtm0, Len(dv4.dest)),
                                     Len(dv4.gateway)), Len(dv4.netmask))
    IN << RtmBytes(rtm), dv4.dest, dv4.gateway, dv4.netmask >>

\* what writev returns: -1, or the number of bytes of the message (a routing
\* socket takes a message whole)
writev(iov, ok) == IF ok THEN Len(IovBytes(iov)) ELSE -1

\* an installer that serves no request once a kernel call has failed, to
\* show what depends on log_warn returning
rt_serving_until_failure(log) == \A i \in 1..Len(log) : log[i].n # -1

\* every path through the four functions ends in a return: after log_warn
\* the caller goes on to the next request
rt_serving(log) == TRUE

\* netcfgd_add_v4route(imsg); log_warn is called when writev does not fail
netcfgd_add_v4route(av4, ok) ==
    /\ rt_serving(rt_log)
    /\ rt_calls < MaxRequests
    /\ rt_calls' = rt_calls + 1
    /\ LET iov == add_v4route_iov(av4)
           n == writev(iov, ok)
       IN /\ rt_route' = [op |-> "add", req |-> av4, iov |-> iov, n |-> n,
                          warned |-> (n # -1)]
          /\ rt_log' = Append(rt_log, [op |-> "add_v4route", req |-> av4,
                                       out |-> IovBytes(iov), n |-> n])
    /\ UNCHANGED << rt_seqno, rt_seqs, rt_inet, sup_vars, kr_vars, cfg_vars >>

\* netcfgd_delete_v4route(imsg)
netcfgd_delete_v4route(dv4, ok) ==
    /\ rt_serving(rt_log)
    /\ rt_calls < MaxRequests
    /\ rt_calls' = rt_calls + 1
    /\ rt_seqno' = rt_seqno + 1
    /\ rt_seqs' = Append(rt_seqs,
                         RdU32([data |-> IovBytes(delete_v4route_iov(dv4,
                                                                     rt_seqno)),
                                fill |-> 0], OFF_SEQ))
    /\ LET iov == delete_v4route_iov(dv4, rt_seqno)
           n == writev(iov, ok)
       IN /\ rt_route' = [op |-> "delete", req |-> dv4, iov |-> iov, n |-> n,
                          warned |-> (n = -1)]
          /\ rt_log' = Append(rt_log, [op |-> "delete_v4route", req |-> dv4,
                                       out |-> IovBytes(iov), n |-> n])
    /\ UNCHANGED << rt_inet, sup_vars, kr_vars, cfg_vars >>

\* netcfgd_add_v4address(imsg): ioctl(SIOCAIFADDR) of name, addr and mask
netcfgd_add_v4address(av4, ok) ==
    /\ rt_serving(rt_log)
    /\ rt_calls < MaxRequests
    /\ rt_calls' = rt_calls + 1
    /\ rt_inet' = [op |-> "SIOCAIFADDR", ifra_name |-> av4.name,
                   ifra_addr |-> av4.addr, ifra_mask |-> av4.mask,
                   n |-> IF ok THEN 0 ELSE -1, warned |-> ~ ok]
    /\ rt_log' = Append(rt_log, [op |-> "add_v4address", req |-> av4,
                                 out |-> << av4.name, av4.addr, av4.mask >>,
                                 n |-> IF ok THEN 0 ELSE -1])
    /\ UNCHANGED << rt_seqno, rt_seqs, rt_route, sup_vars, kr_vars, cfg_vars >>

\* netcfgd_delete_v4address(imsg): ioctl(SIOCDIFADDR) of name and addr
netcfgd_delete_v4address(dv4, ok) ==
    /\ rt_serving(rt_log)
    /\ rt_calls < MaxRequests
    /\ rt_calls' = rt_calls + 1
    /\ rt_inet' = [op |-> "SIOCDIFADDR", ifra_name |-> dv4.name,
                   ifra_addr |-> dv4.addr, ifra_mask |-> Zeros(SIZEOF_SIN),
                   n |-> IF ok THEN 0 ELSE -1, warned |-> ~ ok]
    /\ rt_log' = Append(rt_log, [op |-> "delete_v4address", req |-> dv4,
                                 out |-> << dv4.name, dv4.addr,
                                            Zeros(SIZEOF_SIN) >>,
                                 n |-> IF ok THEN 0 ELSE -1])
    /\ UNCHANGED << rt_seqno, rt_seqs, rt_route, sup_vars, kr_vars, cfg_vars >>

\* the requests the engine is taken to send
RtSin(a, b, c, d) == SaEncode(In4(a, b, c, d))

RtAddrBits ==
    { BitsOf(S) : S \in SUBSET { RTAX_DST, RTAX_GATEWAY, RTAX_NETMASK, RTAX_IFP,
                                 RTAX_IFA } }

AddV4Routes ==
    { [rdomain |-> rd, addrs |-> bits, flags |-> 2051,
       dest |-> RtSin(10, 1, 0, 0), gateway |-> RtSin(10, 0, 0, 1),
       netmask |-> RtSin(255, 255, 0, 0), ifa |-> RtSin(10, 0, 0, 2)] :
      rd \in { 0, 3 }, bits \in RtAddrBits }

DeleteV4Routes ==
    { [rdomain |-> rd, index |-> ix,
       dest |-> RtSin(10, 1, 0, 0), gateway |-> RtSin(10, 0, 0, 1),
       netmask |-> RtSin(255, 255, 0, 0)] : rd \in { 0, 3 }, ix \in { 1, 2 } }

AddV4Addresses ==
    { [name |-> nm, addr |-> RtSin(10, 0, 0, 2), mask |-> RtSin(255, 255, 255, 0)] :
      nm \in { "em0", "em1" } }

DeleteV4Addresses ==
    { [name |-> nm, addr |-> RtSin(10, 0, 0, 2)] : nm \in { "em0", "em1" } }

-----------------------------------------------------------------------------
(* The specifications.                                                     *)

\* what parse_config() returns at startup
BootConfs == { Conf(1, MaxGroups) }

Next ==
    \/ \E c \in BootConfs, ok \in BOOLEAN : main_parse(c, ok)
    \/ \E forked \in 0..2, ok \in BOOLEAN : main_spawn(forked, ok)
    \/ \E sp \in BOOLEAN, f \in 0..2 : main_ipc(sp, f)
    \/ \E fail \in 0..(2 * (MaxGroups + 2)), pledged \in BOOLEAN :
         main_config(fail, pledged)
    \/ \E ch \in Channels, ev \in SUBSET { "EV_READ", "EV_WRITE" } :
         \E rd \in (IF "EV_READ" \in ev THEN OneFrameReads(ch) ELSE Skip),
            wr \in (IF "EV_WRITE" \in ev THEN WriteOutcomes(ch) ELSE Skip) :
           dispatch_begin(ch, ev, rd, wr)
    \/ \E m \in SizedFrames("frontend") : dispatch_get(m)
    \/ dispatch_end
    \/ \E c \in ParsedConfs, ok \in BOOLEAN : reload_parse(c, ok)
    \/ \E fail \in 0..(2 * (MaxGroups + 2)) : reload_send(fail)
    \/ reload_merge
    \/ sig_hup
    \/ sig_term
    \/ event_dispatch_return
    \/ \E ch \in Channels : shutdown_wait(ch)
    \/ shutdown_exit
    \/ kr_read_again
    \/ \E n \in { 0, -1 } : kr_read_stop(n)

Spec == Init /\ [][Next]_vars

\* the decoder alone: the process is in its event loop, both channels set up,
\* and the routing socket becomes readable once
InitKr ==
    /\ pc = "loop"
    /\ loopexit = FALSE
    /\ cur = "none"
    /\ budget = 1
    /\ main_conf = Conf(1, 0)
    /\ xconf = config_new_empty
    /\ r_pc = "none"
    /\ r_ret = 1
    /\ s_ret = 1
    /\ d_pc = "none"
    /\ d_shut = FALSE
    /\ d_rq = 0
    /\ d_got = << >>
    /\ children = Channels
    /\ verbose = 1
    /\ iev = [ch \in Channels |-> NewIev]
    /\ enomem = MaxComposeFail
    /\ rcv = [ch \in Channels |->
                [active |-> config_new_empty, pending |-> << >>]]
    /\ KrIdle
    /\ RtIdle
    /\ McIdle

\* the buffers one read() of the routing socket may return
KReads == SeqsUpTo(KMsgs, MaxMsgs) \ { << >> }

NextKr ==
    \/ kr_read_again
    \/ \E n \in { 0, -1 } : kr_read_stop(n)
    \/ \E ms \in KReads, cut \in KCuts, fill \in KFill :
         /\ iev["engine"].w = << >>
         /\ kr_read_data(ms, cut, fill)
    \/ kr_dispatch_iter
    \/ kr_dispatch_return
    \/ event_dispatch_return
    \/ \E ch \in Channels : shutdown_wait(ch)
    \/ shutdown_exit

SpecKr == InitKr /\ [][NextKr]_vars

\* the decoder reading from a writer that does not keep to the framing.  A
\* message of length 0 is taken to be one the loop does not forward (another
\* version, or another type): a forwarded one is queued for the engine again
\* on every iteration, without end
NextRaw ==
    \/ \E ms \in KReads, dmg \in KDamages, fill \in KFill :
         /\ iev["engine"].w = << >>
         /\ dmg = "zerolen" =>
               \/ ms[Len(ms)].version # RTM_VERSION
               \/ ms[Len(ms)].type # RTM_PROPOSAL
         /\ kr_read_data(ms, dmg, fill)
    \/ kr_dispatch_iter
    \/ kr_dispatch_return

SpecRaw == InitKr /\ [][NextRaw]_vars

\* kr_dispatch_msg runs on the process's only thread: once entered, its loop
\* takes its next iteration, or its exit, without waiting for anything
SpecRawFair ==
    SpecRaw /\ WF_kr_tick(kr_iterate) /\ WF_vars(kr_dispatch_return)

\* the installer alone: the engine's requests arrive one after another
InitRt == InitKr

NextRt ==
    /\ rt_calls = 0
    /\ \/ \E av4 \in AddV4Routes, ok \in BOOLEAN : netcfgd_add_v4route(av4, ok)
       \/ \E dv4 \in DeleteV4Routes, ok \in BOOLEAN :
            netcfgd_delete_v4route(dv4, ok)
       \/ \E av4 \in AddV4Addresses, ok \in BOOLEAN :
            netcfgd_add_v4address(av4, ok)
       \/ \E dv4 \in DeleteV4Addresses, ok \in BOOLEAN :
            netcfgd_delete_v4address(dv4, ok)

SpecRt == InitRt /\ [][NextRt]_vars

\* the installer handling a sequence of requests: one kind of add-route, the
\* remove-routes of one table, one address of one interface
SeqAddV4Routes ==
    { av4 \in AddV4Routes :
        av4.rdomain = 0 /\ av4.addrs = RTA_DST + RTA_GATEWAY + RTA_NETMASK }

SeqDeleteV4Routes == { dv4 \in DeleteV4Routes : dv4.rdomain = 0 }

NextSeq ==
    \/ \E av4 \in SeqAddV4Routes, ok \in BOOLEAN : netcfgd_add_v4route(av4, ok)
    \/ \E dv4 \in SeqDeleteV4Routes, ok \in BOOLEAN :
         netcfgd_delete_v4route(dv4, ok)
    \/ \E av4 \in AddV4Addresses, ok \in BOOLEAN :
         av4.name = "em0" /\ netcfgd_add_v4address(av4, ok)
    \/ \E dv4 \in DeleteV4Addresses, ok \in BOOLEAN :
         dv4.name = "em0" /\ netcfgd_delete_v4address(dv4, ok)

SpecSeq == InitRt /\ [][NextSeq]_vars

\* merge_config and config_clear alone: conf holds groups allocated earlier,
\* xconf groups the parser has just allocated
OldAddrs == 1..MaxGroups

NewAddrs == (MaxGroups + 1)..(2 * MaxGroups + 1)

InitCfg ==
    /\ pc = "loop"
    /\ loopexit = FALSE
    /\ cur = "none"
    /\ budget = 1
    /\ main_conf = Conf(1, 0)
    /\ xconf = config_new_empty
    /\ r_pc = "none"
    /\ r_ret = 1
    /\ s_ret = 1
    /\ d_pc = "none"
    /\ d_shut = FALSE
    /\ d_rq = 0
    /\ d_got = << >>
    /\ children = Channels
    /\ verbose = 1
    /\ iev = [ch \in Channels |-> NewIev]
    /\ enomem = MaxComposeFail
    /\ rcv = [ch \in Channels |->
                [active |-> config_new_empty, pending |-> << >>]]
    /\ KrIdle
    /\ RtIdle
    /\ \E o \in Lists(OldAddrs, MaxGroups), n \in Lists(NewAddrs, MaxGroups) :
         mc = [op |-> "none",
               conf |-> [Conf(1, 0) EXCEPT
                           !.groups = [i \in 1..Len(o) |-> GroupAt(o[i])]],
               xconf |-> [Conf(2, 0) EXCEPT
                            !.groups = [i \in 1..Len(n) |-> GroupAt(n[i])]],
               freed |-> << >>, structs |-> << >>]

NextCfg ==
    \/ cfg_merge
    \/ config_clear
    \/ main_shutdown_free

SpecCfg == InitCfg /\ [][NextCfg]_vars

\* one callback of a child's channel with all it may read: the process is in
\* its event loop after a startup in which nothing failed
InitIpc ==
    /\ pc = "loop"
    /\ loopexit = FALSE
    /\ cur = "none"
    /\ budget = 1
    /\ main_conf \in BootConfs
    /\ xconf = config_new_empty
    /\ r_pc = "none"
    /\ r_ret = 1
    /\ s_ret = 0
    /\ d_pc = "none"
    /\ d_shut = FALSE
    /\ d_rq = 0
    /\ d_got = << >>
    /\ children = Channels
    /\ verbose = 1
    /\ iev = main_imsg_send_config(
                main_imsg_send_ipc_sockets([ch \in Channels |-> NewIev],
                                           TRUE, 0).iev,
                main_conf, 0).iev
    /\ enomem = MaxComposeFail
    /\ rcv = [ch \in Channels |->
                [active |-> config_new_empty, pending |-> << >>]]
    /\ KrIdle
    /\ RtIdle
    /\ McIdle

NextIpc ==
    \/ \E ch \in Channels, ev \in SUBSET { "EV_READ", "EV_WRITE" } :
         \E rd \in (IF "EV_READ" \in ev THEN ReadOutcomes(ch) ELSE Skip),
            wr \in (IF "EV_WRITE" \in ev THEN WriteOutcomes(ch) ELSE Skip) :
           dispatch_begin(ch, ev, rd, wr)
    \/ \E m \in Frames("frontend") : dispatch_get(m)
    \/ dispatch_end
    \/ \E c \in ParsedConfs, ok \in BOOLEAN : reload_parse(c, ok)
    \/ \E fail \in 0..(2 * (MaxGroups + 2)) : reload_send(fail)
    \/ reload_merge
    \/ event_dispatch_return
    \/ \E ch \in Channels : shutdown_wait(ch)
    \/ shutdown_exit

SpecIpc == InitIpc /\ [][NextIpc]_vars

-----------------------------------------------------------------------------
(* Properties of the decoder, checked under SpecKr.                        *)

\* kr_dispatch_msg is inside its decode loop, or has left it by fatalx
KrDecoding == kr_pc \in { "loop", "fatal" }

\* the loop has consumed the whole buffer and is about to return
KrDone == cur = "kr" /\ kr_pc = "loop" /\ kr_offset >= Len(kr_buf.data)

\* the kernel's messages the loop has iterated over so far
KrSeen == SubSeq(kr_src.msgs, 1, kr_src.pos)

\* a message of the expected version and of the proposal type
KIsProposal(m) == m.version = RTM_VERSION /\ m.type = RTM_PROPOSAL

\* the proposals among the messages iterated over, in buffer order
KrProposals == SelectSeq(KrSeen, KIsProposal)

\* the kind a kernel message is to be forwarded under: IPv4 when a slot it
\* carries has the IPv4 family, IPv6 otherwise
KFamilyKind(m) ==
    IF \E i \in DOMAIN m.slots : m.slots[i].family = AF_INET
    THEN "IMSG_SEND_V4PROPOSAL" ELSE "IMSG_SEND_V6PROPOSAL"

\* C1: after every iteration of the decode loop the calls of
\* main_imsg_compose_engine made so far are, in buffer order, one per message
\* iterated over that has the expected version and the proposal type, each
\* under the kind of its family (and carrying that message's sequence
\* number); other messages add no call and the loop goes on to the end of a
\* well-formed buffer; while no allocation has failed the engine's queue holds
\* exactly these proposals.
C1_OneProposalPerMessage ==
    KrDecoding =>
        /\ Len(kr_fwd) = Len(KrProposals)
        /\ \A i \in 1..Len(kr_fwd) :
              /\ kr_fwd[i].type = KFamilyKind(KrProposals[i])
              /\ kr_fwd[i].data.xid = KrProposals[i].seq
        /\ (KrDone /\ kr_src.cut = "none") => kr_src.pos = Len(kr_src.msgs)
        /\ enomem = MaxComposeFail => iev["engine"].w = kr_fwd

\* a pass over a buffer of an IPv4 proposal followed by an IPv6 proposal has
\* ended with both forwarded, in that order
C1_Witness ==
    /\ KrDone
    /\ Len(kr_src.msgs) = 2
    /\ Len(kr_fwd) = 2
    /\ kr_fwd[1].type = "IMSG_SEND_V4PROPOSAL"
    /\ kr_fwd[2].type = "IMSG_SEND_V6PROPOSAL"

KFieldSlot ==
    [gateway |-> RTAX_GATEWAY, ifa |-> RTAX_IFA, netmask |-> RTAX_NETMASK,
     dns1 |-> RTAX_DNS1, dns2 |-> RTAX_DNS2, dns3 |-> RTAX_DNS3,
     dns4 |-> RTAX_DNS4, rtstatic |-> RTAX_STATIC, rtsearch |-> RTAX_SEARCH]

\* C3: in every forwarded proposal each of gateway, ifa, netmask, dns1..dns4,
\* rtstatic and rtsearch equals the address bytes of its slot when the
\* message carries that slot, and is all zero when it does not.
C3_FieldsMirrorSlots ==
    KrDecoding =>
        \A i \in 1..Len(kr_fwd) : \A f \in DOMAIN KFieldSlot :
            LET m == KrProposals[i]
                v == kr_fwd[i].data[f]
            IN IF KFieldSlot[f] \in DOMAIN m.slots
               THEN v = m.slots[KFieldSlot[f]].addr
               ELSE v = Zeros(Len(v))

\* C3 for the proposals forwarded under the IPv4 kind only
C3_V4FieldsMirrorSlots ==
    KrDecoding =>
        \A i \in 1..Len(kr_fwd) : \A f \in DOMAIN KFieldSlot :
            LET m == KrProposals[i]
                v == kr_fwd[i].data[f]
            IN kr_fwd[i].type = "IMSG_SEND_V4PROPOSAL" =>
                 IF KFieldSlot[f] \in DOMAIN m.slots
                 THEN v = m.slots[KFieldSlot[f]].addr
                 ELSE v = Zeros(Len(v))

\* an IPv6 proposal whose message carries a gateway has been forwarded
C3_Witness ==
    /\ KrDecoding
    /\ \E i \in 1..Len(kr_fwd) :
         /\ kr_fwd[i].type = "IMSG_SEND_V6PROPOSAL"
         /\ RTAX_GATEWAY \in DOMAIN KrProposals[i].slots

\* C4: every forwarded proposal, of either kind, has mtu = 0 when the MTU
\* bit of the message's rtm_inits is clear, whatever rmx_mtu holds, and the
\* message's rmx_mtu when the bit is set.
C4_MtuOnlyWhenInit ==
    KrDecoding =>
        \A i \in 1..Len(kr_fwd) :
            LET m == KrProposals[i]
            IN kr_fwd[i].data.mtu =
                 IF (m.inits \div RTV_MTU) % 2 = 1 THEN m.mtu ELSE 0

\* an IPv4 and an IPv6 proposal have been forwarded with mtu 0 from messages
\* whose rmx_mtu is not 0 and whose MTU bit is clear
C4_Witness ==
    /\ KrDone
    /\ \A k \in { "IMSG_SEND_V4PROPOSAL", "IMSG_SEND_V6PROPOSAL" } :
         \E i \in 1..Len(kr_fwd) :
            /\ kr_fwd[i].type = k
            /\ KrProposals[i].inits = 0
            /\ KrProposals[i].mtu # 0
            /\ kr_fwd[i].data.mtu = 0

\* n rounded up to the next multiple of the word size
WordMultiple(n) == ((n + SIZEOF_LONG - 1) \div SIZEOF_LONG) * SIZEOF_LONG

\* the sum of the rounded-up record lengths of the slots of m below index i
RECURSIVE KSlotStart(_, _)
KSlotStart(m, i) ==
    IF i = 0 THEN 0
    ELSE KSlotStart(m, i - 1)
         + (IF (i - 1) \in DOMAIN m.slots
            THEN WordMultiple(Len(SaEncode(m.slots[i - 1]))) ELSE 0)

\* C5: after get_rtaddrs has walked the slots of a message, the records start
\* right behind the message's header, every slot the message carries is
\* recorded at the start of the records plus the sum of the rounded-up
\* lengths of the earlier slots it carries, and every other slot is NULL.
C5_CursorAdvance ==
    (KrDecoding /\ kr_rti.pos > 0) =>
        LET m == kr_src.msgs[kr_rti.pos]
        IN /\ kr_rti.sa = Len(KEncodeAll(SubSeq(kr_src.msgs, 1, kr_rti.pos - 1)))
                          + SIZEOF_RTM
           /\ \A i \in 0..(RTAX_MAX - 1) :
                 kr_rti.rti[i] = IF i \in DOMAIN m.slots
                                 THEN kr_rti.sa + KSlotStart(m, i)
                                 ELSE NULL

\* get_rtaddrs has walked a message in which a record of 130 bytes is
\* followed by another record, found 136 bytes further on
C5_Witness ==
    /\ KrDecoding /\ kr_rti.pos > 0
    /\ kr_rti.rti[RTAX_STATIC] # NULL
    /\ kr_rti.rti[RTAX_SEARCH] = kr_rti.rti[RTAX_STATIC] + 136
    /\ kr_rti.rti[RTAX_GATEWAY] = NULL

-----------------------------------------------------------------------------
(* Properties of the installer, checked under SpecRt.                      *)

\* the payloads an add-route request is to carry: those of destination,
\* gateway, netmask and interface address whose bit the request's bitmap has
AddPayloads(av4) ==
    LET Opt(slot, member) == IF BitSet(av4.addrs, slot) THEN member ELSE << >>
    IN Opt(RTAX_DST, av4.dest) \o Opt(RTAX_GATEWAY, av4.gateway)
       \o Opt(RTAX_NETMASK, av4.netmask) \o Opt(RTAX_IFA, av4.ifa)

\* C6: the bytes netcfgd_add_v4route hands to writev are a header followed
\* by exactly the payloads of destination, gateway, netmask and interface
\* address whose bits the request's bitmap has, in that order; rtm_msglen
\* in the header is the header size plus the payload sizes, which is the
\* number of bytes of the message and what a writev that does not fail
\* returns; the header has RTM_VERSION, RTM_ADD, RTP_NONE and the request's
\* table id, bitmap and flags.
C6_AddRouteMessage ==
    rt_route.op = "add" =>
        LET bytes == IovBytes(rt_route.iov)
            b == [data |-> bytes, fill |-> 0]
            av4 == rt_route.req
        IN /\ Len(bytes) >= SIZEOF_RTM
           /\ SubSeq(bytes, SIZEOF_RTM + 1, Len(bytes)) = AddPayloads(av4)
           /\ RdU16(b, OFF_MSGLEN) = SIZEOF_RTM + Len(AddPayloads(av4))
           /\ RdU16(b, OFF_MSGLEN) = Len(bytes)
           /\ rt_route.n # -1 => rt_route.n = Len(bytes)
           /\ RdU8(b, OFF_VERSION) = RTM_VERSION
           /\ RdU8(b, OFF_TYPE) = RTM_ADD
           /\ RdU8(b, OFF_PRIORITY) = RTP_NONE
           /\ RdU16(b, OFF_TABLEID) = av4.rdomain
           /\ RdU32(b, OFF_ADDRS) = av4.addrs
           /\ RdU32(b, OFF_FLAGS) = av4.flags

\* an add-route request with the bits of destination, gateway and netmask
\* has been written: 96 bytes of header and three payloads of 16 bytes
C6_Witness ==
    /\ rt_route.op = "add"
    /\ rt_route.n = 144
    /\ rt_route.req.addrs = RTA_DST + RTA_GATEWAY + RTA_NETMASK
    /\ rt_route.req.rdomain = 3
    /\ Len(rt_route.iov) = 4

-----------------------------------------------------------------------------
(* Properties of the supervisor, checked under Spec.                       *)

\* imsg_read returns 0 in main_dispatch_frontend / main_dispatch_engine
ZeroRead(ch) ==
    \E ev \in SUBSET { "EV_READ", "EV_WRITE" } :
        /\ "EV_READ" \in ev
        /\ \E wr \in (IF "EV_WRITE" \in ev THEN WriteOutcomes(ch) ELSE Skip) :
              dispatch_begin(ch, ev, [r |-> "eof", frames |-> 0], wr)

\* C7: a read of zero bytes never ends in fatal: on a child's channel the
\* callback goes on with shut set and, at its end, deregisters the channel's
\* event and asks the event loop to stop; on the routing socket
\* kr_dispatch_msg asks the event loop to stop and forwards nothing.
C7_ZeroReadOrderly ==
    [][ /\ \A ch \in Channels :
             ZeroRead(ch) => pc' = "loop" /\ cur' = ch /\ d_shut' /\ d_rq' = 0
        /\ (dispatch_end /\ d_shut) => loopexit' /\ ~ iev'[cur].added
        /\ kr_read_stop(0) =>
             pc' = "loop" /\ loopexit' /\ kr_fwd' = << >> /\ iev' = iev
      ]_vars

\* a read of zero bytes on the frontend's channel has been handled to the
\* end of the callback: the event is deleted, the loop asked to stop
C7_Witness ==
    /\ pc = "loop" /\ cur = "none"
    /\ loopexit
    /\ ~ iev["frontend"].added
    /\ iev["engine"].added

\* what a step hands to child ch: the messages leaving the head of its queue
Delivered(ch) == SubSeq(iev[ch].w, 1, Len(iev[ch].w) - Len(iev'[ch].w))

\* the configurations the parser may return, at startup or on reload
OfferedConfs == BootConfs \cup ParsedConfs

\* C8: a child's active configuration changes only in a step that delivers
\* an IMSG_RECONF_END to it: while a sequence has been delivered up to any
\* point before its end marker, the active configuration is what it was
\* before the sequence; and what a child has active is never a part of a
\* configuration, but the initial one or a whole configuration of the parser.
C8_ActiveOnlyOnEnd ==
    /\ [](\A ch \in Channels :
            rcv[ch].active \in { config_new_empty } \cup OfferedConfs)
    /\ [][ \A ch \in Channels :
             rcv'[ch].active # rcv[ch].active =>
                 \E i \in 1..Len(Delivered(ch)) :
                     Delivered(ch)[i].type = "IMSG_RECONF_END"
         ]_vars

\* a distribution was cut by a failure; a child has been delivered all that
\* was sent, holds the beginning of the configuration as pending and still
\* has the configuration it had before
C8_Witness ==
    /\ s_ret = -1
    /\ \E ch \in Channels :
         /\ iev[ch].w = << >>
         /\ rcv[ch].pending # << >>
         /\ rcv[ch].active = config_new_empty

\* the messages of one distribution of c
Block(c) ==
    << ConfMsg(c) >> \o [i \in 1..Len(c.groups) |-> GroupMsg(c.groups[i])]
    \o << EndMsg >>

IsSuffix(t, w) ==
    Len(t) <= Len(w) /\ SubSeq(w, Len(w) - Len(t) + 1, Len(w)) = t

\* C9: a main_imsg_send_config that returns 0, in main() or in main_reload,
\* appends to the frontend's queue and to the engine's queue exactly one
\* IMSG_RECONF_CONF, one IMSG_RECONF_GROUP per group of the configuration in
\* list order and one IMSG_RECONF_END, as one block behind what was queued.
C9_WholeBlockOnBothChannels ==
    [][ /\ (pc = "config" /\ s_ret' = 0) =>
             \A ch \in Channels : iev'[ch].w = iev[ch].w \o Block(main_conf)
        /\ (r_pc = "send" /\ s_ret' = 0) =>
             /\ r_pc' = "merge"
             /\ \A ch \in Channels : iev'[ch].w = iev[ch].w \o Block(xconf)
        /\ (r_pc = "send" /\ r_pc' = "merge") => s_ret' = 0
      ]_vars

\* the distribution of a reload has succeeded: both queues end with the
\* block of the startup configuration followed by the block of the new one
C9_Witness ==
    /\ r_pc = "merge"
    /\ s_ret = 0
    /\ Len(xconf.groups) >= 2
    /\ \A ch \in Channels : IsSuffix(Block(main_conf) \o Block(xconf), iev[ch].w)

\* C10: when parse_config fails in main_reload, main_reload returns -1 in
\* that step with both queues and main_conf as they were and the process
\* still in its event loop; a successful parse changes neither; and main_conf
\* changes during a reload only in the step of merge_config, when both queues
\* already end with the whole block of the new configuration.
C10_ReloadOrder ==
    [][ /\ (r_pc = "parse" /\ r_pc' = "none") =>
             /\ r_ret' = -1
             /\ iev' = iev /\ main_conf' = main_conf
             /\ pc = "loop" /\ pc' = "loop" /\ loopexit' = loopexit
        /\ (r_pc \in { "parse", "send" }) => main_conf' = main_conf
        /\ (r_pc = "parse" /\ r_pc' = "send") => iev' = iev
        /\ (pc = "loop" /\ pc' = "loop" /\ main_conf' # main_conf) =>
             /\ r_pc = "merge"
             /\ \A ch \in Channels : IsSuffix(Block(xconf), iev[ch].w)
             /\ iev' = iev
             /\ r_ret' = 0
      ]_vars

\* a reload whose parse failed has returned -1: nothing was allocated for a
\* message, the startup configuration is retained, the loop goes on
C10_Witness ==
    /\ r_ret = -1 /\ r_pc = "none"
    /\ enomem = MaxComposeFail
    /\ pc = "loop" /\ ~ loopexit
    /\ main_conf \in BootConfs
    /\ \A ch \in Channels : IsSuffix(Block(main_conf), iev[ch].w)

\* the scalar settings of a configuration the parser can set
ParserScalars == ScalarFields \ { "csock" }

\* C11: after merge_config(main_conf, xconf) in a reload, every scalar
\* setting of main_conf equals the value it has in xconf.
C11_ScalarsReplaced ==
    [][ reload_merge =>
            \A f \in ParserScalars : main_conf'[f] = xconf[f] ]_vars

\* a reload has merged a configuration whose every scalar differs from the
\* startup configuration's: yesno has the new value, global_yesno the old
C11_Witness ==
    /\ r_ret = 0 /\ r_pc = "none"
    /\ \E c \in BootConfs, x \in ParsedConfs :
         /\ main_conf.yesno = x.yesno
         /\ main_conf.global_yesno = c.global_yesno
         /\ x.global_yesno # c.global_yesno

-----------------------------------------------------------------------------
(* Properties of merge_config, checked under SpecCfg.                      *)

\* how often x occurs in the sequence t
Count(t, x) == Cardinality({ i \in 1..Len(t) : t[i] = x })

Range(t) == { t[i] : i \in 1..Len(t) }

\* C12: after merge_config(conf, xconf), conf's list holds exactly the group
\* objects xconf's list held, each once; none of the groups conf held before
\* remains; each of those has been passed to free() exactly once and nothing
\* else has; xconf's list is empty.  config_clear leaves conf without groups
\* and frees each group it held once.
C12_GroupsReplaced ==
    [][ /\ cfg_merge =>
             /\ \A g \in Range(mc.xconf.groups) \cup Range(mc'.conf.groups) :
                   /\ Count(mc'.conf.groups, g) = 1
                   /\ Count(mc.xconf.groups, g) = 1
             /\ \A g \in Range(mc.conf.groups) :
                   /\ Count(mc'.conf.groups, g) = 0
                   /\ Count(mc'.freed, g) = 1
             /\ Len(mc'.freed) = Len(mc.conf.groups)
             /\ mc'.xconf.groups = << >>
        /\ config_clear =>
             /\ mc'.conf.groups = << >>
             /\ \A g \in Range(mc.conf.groups) :
                   Count(mc'.freed, g) = Count(mc.freed, g) + 1
             /\ Len(mc'.freed) = Len(mc.freed) + Len(mc.conf.groups)
      ]_vars

\* a merge has replaced two groups by two others that share a name
C12_Witness ==
    /\ mc.op = "merge"
    /\ Len(mc.freed) = 2
    /\ Len(mc.conf.groups) = 2
    /\ mc.conf.groups[1].name = mc.conf.groups[2].name
    /\ mc.conf.groups[1].addr # mc.conf.groups[2].addr
    /\ Range(mc.conf.groups) \cap Range(mc.freed) = {}

-----------------------------------------------------------------------------
(* Properties of the channel callbacks, checked under SpecIpc.             *)

\* C13: when main_dispatch_frontend gets an IMSG_CTL_LOG_VERBOSE frame whose
\* payload is not sizeof(int) bytes long, the process ends through fatal and
\* the verbosity is not set from the payload.
C13_SizeMismatchFatal ==
    [][ \A m \in Frames("frontend") :
          ( /\ cur = "frontend"
            /\ m.type = "IMSG_CTL_LOG_VERBOSE"
            /\ m.len # SIZEOF_INT
            /\ dispatch_get(m) )
          => pc' = "exit1" /\ verbose' = verbose
      ]_vars

\* an IMSG_CTL_LOG_VERBOSE frame with a payload of two ints has been
\* dispatched: the verbosity is its first int and the callback goes on
C13_Witness ==
    /\ pc = "loop" /\ cur = "frontend"
    /\ d_got # << >>
    /\ d_got[Len(d_got)] = Frame("IMSG_CTL_LOG_VERBOSE", 2 * SIZEOF_INT, 2)
    /\ verbose = 2

\* a frame of a kind the handler of ch has no case for
Unrecognised(ch, m) ==
    /\ m.type # "MALFORMED"
    /\ \/ ch = "engine"
       \/ m.type \notin { "IMSG_CTL_RELOAD", "IMSG_CTL_LOG_VERBOSE",
                          "IMSG_CTL_SHOW_MAIN_INFO" }

\* C14: dispatching a frame of an unrecognised kind leaves the process in its
\* callback with the configuration, the queues, their events, the verbosity
\* and shut as they were and starts no reload; the frame is consumed, and the
\* loop is at imsg_get for the frames that follow it.
C14_UnknownKindIgnored ==
    [][ \A m \in Frames("frontend") :
          (cur \in Channels /\ Unrecognised(cur, m) /\ dispatch_get(m)) =>
              /\ pc' = pc /\ cur' = cur /\ loopexit' = loopexit
              /\ main_conf' = main_conf /\ xconf' = xconf
              /\ r_pc' = "none" /\ r_ret' = r_ret
              /\ iev' = iev /\ rcv' = rcv
              /\ verbose' = verbose /\ d_shut' = d_shut
              /\ d_pc' = "get"
              /\ d_rq' = d_rq - 1
              /\ d_got' = Append(d_got, m)
      ]_vars

\* one read of the engine's channel held a frame of the reload kind and one
\* of an unknown kind, one read of the frontend's an unknown kind and then a
\* log-verbose frame: after an unrecognised first frame the second has been
\* dispatched, and the verbosity set on the frontend's channel
C14_Witness ==
    /\ pc = "loop"
    /\ Len(d_got) = 2
    /\ \/ /\ cur = "engine"
          /\ d_got[1].type = "IMSG_CTL_RELOAD"
          /\ d_got[2].type = "IMSG_NONE"
          /\ main_conf \in BootConfs
       \/ /\ cur = "frontend"
          /\ d_got[1].type = "IMSG_NONE"
          /\ d_got[2] = Frame("IMSG_CTL_LOG_VERBOSE", SIZEOF_INT, 2)
          /\ verbose = 2

-----------------------------------------------------------------------------
(* Further properties of the supervisor, checked under Spec.               *)

\* the positions of the IMSG_SOCKET_IPC messages in a queue
Handoffs(w) == { i \in 1..Len(w) : w[i].type = "IMSG_SOCKET_IPC" }

\* C15: when main_imsg_send_ipc_sockets has succeeded, each child's queue
\* holds one message, an IMSG_SOCKET_IPC without payload, the frontend's with
\* one end of the new socket pair and the engine's with the other; a queue
\* never holds such a message behind another message, and no later step
\* queues one.
C15_HandoffOnce ==
    /\ [](\A ch \in Channels : Handoffs(iev[ch].w) \subseteq { 1 })
    /\ [][ /\ (pc = "ipc" /\ pc' = "config") =>
                /\ \A ch \in Channels :
                     /\ Len(iev'[ch].w) = 1
                     /\ iev'[ch].w[1].type = "IMSG_SOCKET_IPC"
                     /\ iev'[ch].w[1].data = [len |-> 0]
                     /\ iev'[ch].w[1].fd \in { 0, 1 }
                /\ iev'["frontend"].w[1].fd # iev'["engine"].w[1].fd
           /\ pc # "ipc" =>
                \A ch \in Channels :
                   Cardinality(Handoffs(iev'[ch].w))
                       <= Cardinality(Handoffs(iev[ch].w))
         ]_vars

\* the event loop is reached with both handoff messages still queued, each
\* followed by the messages of the startup configuration
C15_Witness ==
    /\ pc = "loop"
    /\ s_ret = 0
    /\ \A ch \in Channels :
         /\ Len(iev[ch].w) = Len(main_conf.groups) + 3
         /\ iev[ch].w[1].type = "IMSG_SOCKET_IPC"
         /\ iev[ch].w[2].type = "IMSG_RECONF_CONF"
    /\ iev["frontend"].w[1].fd = 0
    /\ iev["engine"].w[1].fd = 1

\* C16: the supervisor forks its two children once, at startup, and none
\* later; it exits only with both channels closed and no child left, and it
\* takes a child from wait() only after it has closed both channels.
C16_TwoChildrenOrderlyExit ==
    /\ [](pc \in { "exit0", "exit1" } =>
            /\ children = {}
            /\ \A ch \in Channels : ~ iev[ch].fd)
    /\ [][ /\ (pc = "spawn" /\ pc' = "ipc") => children' = Channels
           /\ pc # "spawn" => children' \subseteq children
           /\ (pc # "spawn" /\ children' # children) =>
                \A ch \in Channels : ~ iev[ch].fd
         ]_vars

\* a fatal() in a channel's callback has ended the process while both
\* channels were open and both children had not been waited for
C16_Witness ==
    /\ pc = "exit1"
    /\ budget < MaxEvents
    /\ children = Channels
    /\ \A ch \in Channels : iev[ch].fd

-----------------------------------------------------------------------------
(* Further properties of the decoder, checked under SpecKr.                *)

\* C17: in kr_dispatch_msg a read() that fails with EAGAIN or EINTR returns
\* with nothing changed and nothing forwarded; a read() that fails with
\* another errno ends the process through fatal, unlike a read() of 0 bytes,
\* which asks the event loop to stop.
C17_ReadErrorFatal ==
    [][ /\ kr_read_again =>
             /\ UNCHANGED << pc, loopexit, cur, main_conf, iev, rcv, kr_fwd,
                             kr_buf, kr_offset >>
             /\ kr_n'.errno \in { "EAGAIN", "EINTR" }
        /\ kr_read_stop(-1) => pc' = "exit1" /\ ~ loopexit'
        /\ kr_read_stop(0) => pc' = "loop" /\ loopexit'
      ]_vars

\* read() has failed with EIO: the process is still in its event loop, which
\* was asked to stop, as after a read() of 0 bytes
C17_Witness ==
    /\ kr_n = [n |-> -1, errno |-> "EIO"]
    /\ pc = "loop"
    /\ loopexit
    /\ kr_fwd = << >>

-----------------------------------------------------------------------------
(* Registration of the channels' events, checked under Spec.               *)

\* C18: while the event loop waits for events, every child channel whose
\* event is registered has EV_WRITE in its events exactly when its queue
\* holds a message.
C18_WriteRegisteredIffQueued ==
    (pc = "loop" /\ cur = "none") =>
        \A ch \in Channels :
            iev[ch].added =>
                ("EV_WRITE" \in iev[ch].events <=> iev[ch].w # << >>)

\* the event loop waits with the engine's handoff message queued and the
\* engine's event registered for reading only
C18_Witness ==
    /\ pc = "loop" /\ cur = "none"
    /\ iev["engine"].added
    /\ iev["engine"].w = << SocketIpc(1) >>
    /\ iev["engine"].events = { "EV_READ" }

-----------------------------------------------------------------------------
(* Further properties of the installer, checked under SpecRt and SpecSeq.  *)

\* C19: what netcfgd_delete_v4route hands to writev is the header followed by
\* destination, gateway and netmask in that order; the header's rtm_addrs is
\* RTA_DST | RTA_GATEWAY | RTA_NETMASK and its rtm_msglen is the number of
\* bytes handed over, the size of the header plus the sizes of the three.
C19_DeleteRouteLength ==
    rt_route.op = "delete" =>
        LET bytes == IovBytes(rt_route.iov)
            b == [data |-> bytes, fill |-> 0]
            dv4 == rt_route.req
        IN /\ Len(bytes) >= SIZEOF_RTM
           /\ SubSeq(bytes, SIZEOF_RTM + 1, Len(bytes))
                = dv4.dest \o dv4.gateway \o dv4.netmask
           /\ RdU32(b, OFF_ADDRS) = RTA_DST + RTA_GATEWAY + RTA_NETMASK
           /\ RdU8(b, OFF_TYPE) = RTM_DELETE
           /\ RdU16(b, OFF_MSGLEN) = Len(bytes)
           /\ RdU16(b, OFF_MSGLEN)
                = SIZEOF_RTM + Len(dv4.dest) + Len(dv4.gateway)
                  + Len(dv4.netmask)

\* a remove-route message of 144 bytes was written whose rtm_msglen says 48
C19_Witness ==
    /\ rt_route.op = "delete"
    /\ rt_route.n = SIZEOF_RTM + 3 * SIZEOF_SIN
    /\ RdU16([data |-> IovBytes(rt_route.iov), fill |-> 0], OFF_MSGLEN)
         = 3 * SIZEOF_SIN

\* C20: the rtm_seq of the remove-route messages built so far are 0, 1, 2,
\* ... in the order the messages were built, whether their writev succeeded
\* or not; the static seqno is the number of them; a request of another kind
\* leaves seqno as it is.
C20_DeleteSeqIncreasing ==
    /\ [](/\ \A i \in 1..Len(rt_seqs) : rt_seqs[i] = i - 1
          /\ rt_seqno = Len(rt_seqs)
          /\ rt_route.op = "delete" =>
               /\ rt_seqs # << >>
               /\ RdU32([data |-> IovBytes(rt_route.iov), fill |-> 0], OFF_SEQ)
                    = rt_seqs[Len(rt_seqs)])
    /\ [][ /\ rt_calls' = rt_calls + 1
           /\ (rt_route' = rt_route \/ rt_route'.op # "delete")
                => rt_seqno' = rt_seqno /\ rt_seqs' = rt_seqs
           /\ (rt_route' # rt_route /\ rt_route'.op = "delete")
                => rt_seqno' = rt_seqno + 1
         ]_vars

\* three requests were handled, an address request among them; the second
\* remove-route, whose writev failed, carries sequence number 1
C20_Witness ==
    /\ rt_calls = 3
    /\ rt_seqs = << 0, 1 >>
    /\ rt_inet.op # "none"
    /\ rt_route.op = "delete"
    /\ rt_route.n = -1

\* the slots of a kernel message that carry the IPv4 family tag
KInetSlots(m) == { i \in DOMAIN m.slots : m.slots[i].family = AF_INET }

\* C21: a proposal is forwarded under the IPv4 kind exactly when at least one
\* slot its message carries (address, DNS, static-route or search-domain
\* slot alike, at whatever position) has the IPv4 family tag, and under the
\* IPv6 kind otherwise, a message with an empty presence bitmap included.
C21_FamilyClassification ==
    KrDecoding =>
        \A i \in 1..Len(kr_fwd) :
            LET m == KrProposals[i]
            IN /\ kr_fwd[i].type \in { "IMSG_SEND_V4PROPOSAL",
                                       "IMSG_SEND_V6PROPOSAL" }
               /\ kr_fwd[i].type = "IMSG_SEND_V4PROPOSAL"
                    <=> KInetSlots(m) # {}
               /\ DOMAIN m.slots = {} => kr_fwd[i].type = "IMSG_SEND_V6PROPOSAL"

\* forwarded in one pass: a proposal with an empty bitmap under the IPv6
\* kind, and a proposal under the IPv4 kind whose only IPv4 slot is the
\* search-domain slot, the last of the slots it carries
C21_Witness ==
    /\ KrDone
    /\ \E i, j \in 1..Len(kr_fwd) :
         /\ DOMAIN KrProposals[i].slots = {}
         /\ kr_fwd[i].type = "IMSG_SEND_V6PROPOSAL"
         /\ KInetSlots(KrProposals[j]) = { RTAX_SEARCH }
         /\ RTAX_STATIC \in DOMAIN KrProposals[j].slots
         /\ kr_fwd[j].type = "IMSG_SEND_V4PROPOSAL"

\* the slot each address member of a proposal is taken from
KAddrSlot ==
    [gateway |-> RTAX_GATEWAY, ifa |-> RTAX_IFA, netmask |-> RTAX_NETMASK,
     dns1 |-> RTAX_DNS1, dns2 |-> RTAX_DNS2, dns3 |-> RTAX_DNS3,
     dns4 |-> RTAX_DNS4]

\* the address bytes a kernel message holds for the members of a proposal
KAddrs(m) ==
    [f \in { g \in DOMAIN KAddrSlot : KAddrSlot[g] \in DOMAIN m.slots } |->
        m.slots[KAddrSlot[f]].addr]

\* C22: a proposal forwarded under the IPv6 kind holds, for every gateway,
\* interface-address, netmask and DNS slot its message carries, all 16 bytes
\* of the slot's address (one forwarded under the IPv4 kind holds the 4 bytes
\* of its address), so that proposals forwarded from messages whose addresses
\* differ are different proposals.
C22_WholeAddressForwarded ==
    KrDecoding =>
        /\ \A i \in 1..Len(kr_fwd) : \A f \in DOMAIN KAddrs(KrProposals[i]) :
              /\ kr_fwd[i].data[f] = KAddrs(KrProposals[i])[f]
              /\ Len(kr_fwd[i].data[f]) =
                   IF kr_fwd[i].type = "IMSG_SEND_V6PROPOSAL" THEN 16 ELSE 4
        /\ \A i, j \in 1..Len(kr_fwd) :
              KAddrs(KrProposals[i]) # KAddrs(KrProposals[j])
                  => kr_fwd[i].data # kr_fwd[j].data

\* two proposals have been forwarded under the IPv6 kind from messages whose
\* gateways differ in their last byte only
C22_Witness ==
    /\ KrDone
    /\ Len(kr_fwd) = 2
    /\ kr_fwd[1].type = "IMSG_SEND_V6PROPOSAL"
    /\ kr_fwd[2].type = "IMSG_SEND_V6PROPOSAL"
    /\ RTAX_GATEWAY \in DOMAIN KrProposals[1].slots
    /\ RTAX_GATEWAY \in DOMAIN KrProposals[2].slots
    /\ LET g1 == KrProposals[1].slots[RTAX_GATEWAY].addr
           g2 == KrProposals[2].slots[RTAX_GATEWAY].addr
       IN /\ g1 # g2
          /\ SubSeq(g1, 1, 15) = SubSeq(g2, 1, 15)
    /\ kr_fwd[1].data = kr_fwd[2].data

\* the remove-route requests among the first n entries of the installer's log
RtDeletes(log, n) ==
    Cardinality({ j \in 1..n : log[j].op = "delete_v4route" })

\* what a request hands to the kernel when nothing but the number k of
\* remove-routes handled before it is known
RtHandedOver(e, k) ==
    CASE e.op = "add_v4route" -> IovBytes(add_v4route_iov(e.req))
      [] e.op = "delete_v4route" -> IovBytes(delete_v4route_iov(e.req, k))
      [] e.op = "add_v4address" -> << e.req.name, e.req.addr, e.req.mask >>
      [] e.op = "delete_v4address" ->
           << e.req.name, e.req.addr, Zeros(SIZEOF_SIN) >>

C24_ReadsInsideMessage ==
    /\ [](KrDecoding => kr_rdmax <= Len(kr_buf.data))
    /\ [][(kr_dispatch_iter /\ kr_pc' = "loop") =>
            kr_iter_reads(kr_buf, Len(kr_buf.data), kr_offset, kr_rti.rti)
                <= kr_offset + RdU16(kr_buf, kr_offset + OFF_MSGLEN)]_vars

\* the loop has accepted a message that declares 8 bytes, all that read()
\* returned, and has read its rtm_addrs, 8 bytes further on
C24_Witness ==
    /\ KrDecoding
    /\ kr_src.cut = "shortlen"
    /\ kr_src.pos = Len(kr_src.msgs)
    /\ Len(kr_buf.data) = 8
    /\ kr_rdmax >= OFF_ADDRS + 4

\* C25: the decode loop entered on a non-empty buffer ends, by consuming the
\* buffer or by fatalx, and every iteration that goes on moves the offset
\* forward, also at a message of declared length 0 and at a message skipped
\* for its version.
C25_DecodeLoopTerminates ==
    /\ (kr_pc = "loop") ~> (kr_pc # "loop")
    /\ [][(kr_dispatch_iter /\ kr_pc' = "loop") => kr_offset' > kr_offset]_vars

\* the loop has iterated over a message of another version that declares a
\* length of 0, and is at the same offset, inside the buffer, again
C25_Witness ==
    /\ cur = "kr" /\ kr_pc = "loop"
    /\ kr_src.cut = "zerolen"
    /\ kr_src.pos = Len(kr_src.msgs)
    /\ kr_src.msgs[kr_src.pos].version # RTM_VERSION
    /\ kr_offset < Len(kr_buf.data)
    /\ RdU16(kr_buf, kr_offset + OFF_MSGLEN) = 0

\* C26: on every path through main_shutdown no heap object is passed to
\* free() twice, and when the process exits the retained configuration, each
\* group it held and each of the two channel handles has been released
\* exactly once; the configuration released inside config_clear is not
\* released again.
C26_ReleasedOnce ==
    /\ \A x \in Range(mc.structs) : Count(mc.structs, x) = 1
    /\ \A g \in Range(mc.freed) : Count(mc.freed, g) = 1
    /\ mc.op = "exit" =>
          /\ \A x \in { "conf", "iev_frontend", "iev_engine" } :
                Count(mc.structs, x) = 1
          /\ mc.conf.groups = << >>

\* main_shutdown has run to its exit(0) after a reload had merged a new
\* configuration, and the retained configuration has been passed to free()
\* by config_clear and by main_shutdown
C26_Witness ==
    /\ mc.op = "exit"
    /\ mc.structs = << "xconf", "empty", "conf", "iev_frontend", "iev_engine",
                       "conf" >>
    /\ mc.freed # << >>

\* C27: a main_imsg_send_config in which an imsg_compose fails returns -1
\* without queueing IMSG_RECONF_END for either child, at startup and in
\* main_reload; main_reload then returns -1 in the same step, merge_config
\* is not run and main_conf is what it was.
C27_FailedDistributionHasNoEnd ==
    [][ /\ (pc = "config" /\ s_ret' = -1) =>
             \A ch \in Channels :
                Count(iev'[ch].w, EndMsg) = Count(iev[ch].w, EndMsg)
        /\ (r_pc = "send" /\ s_ret' = -1) =>
             /\ r_pc' = "none"
             /\ r_ret' = -1
             /\ main_conf' = main_conf
             /\ \A ch \in Channels :
                   Count(iev'[ch].w, EndMsg) = Count(iev[ch].w, EndMsg)
      ]_vars

\* a reload has returned -1 from a distribution whose last imsg_compose, of
\* IMSG_RECONF_END for the engine, failed: the marker is the last message
\* queued for the frontend and the last group the last queued for the engine
C27_Witness ==
    /\ pc = "loop" /\ r_pc = "none"
    /\ r_ret = -1 /\ s_ret = -1
    /\ iev["frontend"].w # << >> /\ iev["engine"].w # << >>
    /\ iev["frontend"].w[Len(iev["frontend"].w)] = EndMsg
    /\ iev["engine"].w[Len(iev["engine"].w)].type = "IMSG_RECONF_GROUP"

\* what does hold of a failed distribution of the configuration c: the
\* engine's queue has gained the first k messages of the block, not the
\* marker, and the frontend's queue those or one more
StoppedAtFailure(c) ==
    \E k \in 0..(Len(Block(c)) - 1) :
        /\ iev'["engine"].w = iev["engine"].w \o SubSeq(Block(c), 1, k)
        /\ \E j \in { k, k + 1 } :
              iev'["frontend"].w = iev["frontend"].w \o SubSeq(Block(c), 1, j)

\* C27 without the frontend's marker: a failed distribution stops at the
\* imsg_compose that failed, and a reload returns -1 with main_conf untouched
C27_StopsAtFailure ==
    [][ /\ (pc = "config" /\ s_ret' = -1) => StoppedAtFailure(main_conf)
        /\ (r_pc = "send" /\ s_ret' = -1) =>
             /\ r_pc' = "none"
             /\ r_ret' = -1
             /\ main_conf' = main_conf
             /\ StoppedAtFailure(xconf)
      ]_vars

\* a sequence back to front
Reverse(t) == [i \in 1..Len(t) |-> t[Len(t) + 1 - i]]

\* C28: the merge_config of a successful reload leaves in main_conf the
\* groups that were distributed to the children, in the reverse of the order
\* in which they were queued for both of them: the same entries, and with
\* two or more groups a different sequence.
C28_GroupsReversed ==
    [][(r_pc = "merge" /\ r_pc' = "none") =>
          /\ r_ret' = 0
          /\ \A ch \in Channels : IsSuffix(Block(xconf), iev[ch].w)
          /\ main_conf'.groups = Reverse(xconf.groups)
          /\ Range(main_conf'.groups) = Range(xconf.groups)
          /\ Len(xconf.groups) >= 2 => main_conf'.groups # xconf.groups
      ]_vars

\* a reload of a configuration of two or more groups has returned 0, and the
\* first group of main_conf is the last group that was queued
C28_Witness ==
    /\ pc = "loop" /\ r_pc = "none" /\ r_ret = 0
    /\ Len(main_conf.groups) >= 2
    /\ \E c \in ParsedConfs :
         /\ main_conf.groups = Reverse(c.groups)
         /\ main_conf.groups # c.groups
         /\ main_conf.groups[1] = c.groups[Len(c.groups)]

=============================================================================
